---- MODULE Spec2Model ----
(***************************************************************************)
(* Model of the form-input-restore content script (src/content.js).       *)
(*                                                                         *)
(* One content-script instance runs per loaded page.  The model follows    *)
(* the instance through user edits, the debounced flush (saveCurrentPage   *)
(* with its storage awaits and the eviction that follows), RESTORE         *)
(* requests (restoreCurrentPage / restoreWithRetries with the mutation     *)
(* observer and the timeout) and a page reload.  Every await of the code   *)
(* is a suspension point: the code between two awaits is one action.       *)
(***************************************************************************)
EXTENDS Integers, Sequences, FiniteSets, TLC

\* ------------------------------------------------------------------ constants
SAVE_DEBOUNCE_MS == 400
TARGET_RATIO_PCT == 90
RESTORE_RETRY_MS == 4500
FP_THRESHOLD == 12

\* ------------------------------------------------------------------ bounds
MaxEdits == 2        \* user interactions (typing, clicking, scripted writes)
MaxFlights == 2      \* runs of saveCurrentPage that may be suspended at once
MaxAttempts == 2     \* RESTORE requests
MaxReloads == 1      \* page reloads
MaxTimers == 2       \* setTimeout handles that may be live at once

PAGE == "https://a.test/form"       \* pageKey() of the page the script runs in
OTHER_PAGE == "https://a.test/old"  \* a page saved by an earlier session

\* ------------------------------------------------------------------ DOM
\* An element: its attributes (fixed) and its state (present, value, checked,
\* selectedIndex, selected).  `late` elements are rendered by a later mutation.
\* Attribute values are written in lower case, tag names in upper case, as
\* the DOM reports them.
BlankEl ==
    [tag |-> "INPUT", type |-> "", id |-> "", name |-> "", disabled |-> FALSE,
     multiple |-> FALSE, placeholder |-> "", autocomplete |-> "", ariaLabel |-> "",
     ariaLabelledBy |-> "", labelText |-> << >>, testid |-> "", formAction |-> "",
     options |-> << >>, late |-> FALSE,
     present |-> TRUE, value |-> "", checked |-> FALSE, selectedIndex |-> -1,
     selected |-> {}]

EmailEl == [BlankEl EXCEPT !.type = "text", !.id = "email", !.name = "email"]
NotesEl == [BlankEl EXCEPT !.tag = "TEXTAREA", !.id = "notes", !.late = TRUE,
                           !.present = FALSE]
BasicEl == [BlankEl EXCEPT !.type = "radio", !.name = "plan", !.value = "basic"]
ProEl   == [BlankEl EXCEPT !.type = "radio", !.name = "plan", !.value = "pro"]

\* A second text input that carries the same name attribute, rendered late
ConfirmEl == [BlankEl EXCEPT !.type = "text", !.id = "email2", !.name = "email",
                             !.late = TRUE, !.present = FALSE]

\* The pages the script is loaded into, each a document-order list of controls.
NotesForm == <<EmailEl, NotesEl>>
ConfirmForm == <<EmailEl, ConfirmEl>>
PlanForm == <<BasicEl, ProEl>>

Lower(tag) == CASE tag = "INPUT" -> "input"
                [] tag = "TEXTAREA" -> "textarea"
                [] tag = "SELECT" -> "select"
                [] OTHER -> tag

\* location.pathname of PAGE
PathName == "/form"

\* el.type of an element (the normalised property, not the attribute)
TypeProp(el) == IF el.tag = "INPUT" THEN (IF el.type = "" THEN "text" ELSE el.type)
                ELSE IF el.tag = "TEXTAREA" THEN "textarea"
                ELSE IF el.multiple THEN "select-multiple" ELSE "select-one"

\* Option indexes are 0-based as in the code: option n is options[n + 1];
\* selectedIndex -1 means that no option is selected.
\* el.value of a SELECT: the value of the first selected option, "" when none
SelectValue(el) ==
    IF el.multiple
    THEN IF el.selected = {} THEN ""
         ELSE el.options[(CHOOSE i \in el.selected : \A j \in el.selected : i <= j) + 1]
    ELSE IF el.selectedIndex + 1 \in DOMAIN el.options
         THEN el.options[el.selectedIndex + 1] ELSE ""

ValueProp(el) == IF el.tag = "SELECT" THEN SelectValue(el) ELSE el.value

\* el.value = v on a single SELECT: the first option with that value, else none
SetSelectValue(el, v) ==
    LET hits == {i \in DOMAIN el.options : el.options[i] = v}
    IN  [el EXCEPT !.selectedIndex =
            IF hits = {} THEN -1 ELSE (CHOOSE i \in hits : \A j \in hits : i <= j) - 1]

\* el.selectedIndex = n on a single SELECT: out of range selects nothing
SetSelectedIndex(el, n) ==
    [el EXCEPT !.selectedIndex = IF n + 1 \in DOMAIN el.options THEN n ELSE -1]

\* The state of a control right after the page has loaded
DefaultState(el) ==
    [el EXCEPT !.present = ~el.late,
               !.checked = FALSE,
               !.value = IF el.tag = "INPUT" /\ el.type \in {"radio", "checkbox"}
                         THEN el.value ELSE "",
               !.selectedIndex = IF el.tag = "SELECT" /\ ~el.multiple /\ el.options # << >>
                                 THEN 0 ELSE -1,
               !.selected = {}]

\* el.checked = b at position i: checking a radio unchecks the rest of its group
SetChecked(d, i, b) ==
    [j \in DOMAIN d |->
        IF j = i THEN [d[j] EXCEPT !.checked = b]
        ELSE IF b /\ d[i].tag = "INPUT" /\ TypeProp(d[i]) = "radio"
                /\ d[j].tag = "INPUT" /\ TypeProp(d[j]) = "radio"
                /\ d[j].present /\ d[i].name # "" /\ d[j].name = d[i].name
             THEN [d[j] EXCEPT !.checked = FALSE]
             ELSE d[j]]

\* ------------------------------------------------------------------ identity
isUsableControl(el) ==
    /\ ~el.disabled
    /\ IF el.tag = "INPUT"
       THEN (IF el.type = "" THEN "text" ELSE el.type)
                \notin {"submit", "button", "image", "reset", "file"}
       ELSE el.tag = "TEXTAREA" \/ el.tag = "SELECT"

\* cssPath of the control at position i: controls are children of <body>, so the
\* path has one step, the 1-based index among present siblings of the same tag
cssPath(d, i) ==
    LET idx == Cardinality({j \in 1..i : d[j].present /\ d[j].tag = d[i].tag})
    IN  Lower(d[i].tag) \o ":nth-of-type(" \o ToString(idx) \o ")"

getStableId(d, i) ==
    IF d[i].id # "" THEN [kind |-> "id", value |-> d[i].id, tag |-> ""]
    ELSE IF d[i].name # "" THEN [kind |-> "name", value |-> d[i].name, tag |-> d[i].tag]
    ELSE [kind |-> "path", value |-> cssPath(d, i), tag |-> ""]

NoStable == [kind |-> "none", value |-> "", tag |-> ""]

stableKey_NoTag(stable) ==
    IF stable = NoStable THEN "unknown"
    ELSE IF stable.kind = "id" THEN "id:" \o stable.value
    ELSE IF stable.kind = "name" THEN "name:" \o stable.value
    ELSE IF stable.kind = "path" THEN "path:" \o stable.value
    ELSE "unknown"

stableKey(stable) ==
    IF stable = NoStable THEN "unknown"
    ELSE IF stable.kind = "id" THEN "id:" \o stable.value
    ELSE IF stable.kind = "name" THEN "name:" \o stable.tag \o ":" \o stable.value
    ELSE IF stable.kind = "path" THEN "path:" \o stable.value
    ELSE "unknown"

\* ------------------------------------------------------------------ fingerprint
\* Text is a sequence of characters (one-character strings).
IsSpace(c) == c \in {" ", "\t", "\n"}

LowerChar(c) == CASE c = "A" -> "a" [] c = "B" -> "b" [] c = "C" -> "c" [] OTHER -> c

\* trim(): the text from its first to its last character that is not white space
TrimStart(s) ==
    LET ink == {i \in DOMAIN s : ~IsSpace(s[i])}
    IN  IF ink = {} THEN << >>
        ELSE SubSeq(s, CHOOSE i \in ink : \A j \in ink : i <= j, Len(s))

TrimEnd(s) ==
    LET ink == {i \in DOMAIN s : ~IsSpace(s[i])}
    IN  IF ink = {} THEN << >>
        ELSE SubSeq(s, 1, CHOOSE i \in ink : \A j \in ink : j <= i)

\* replace(/\s+/g, " "): every run of white space becomes one blank
CollapseSpaces(s) ==
    LET marked == [i \in DOMAIN s |->
                      [c |-> IF IsSpace(s[i]) THEN " " ELSE s[i],
                       lead |-> i = 1 \/ ~IsSpace(s[i - 1])]]
        kept == SelectSeq(marked, LAMBDA e : e.c # " " \/ e.lead)
    IN  [i \in DOMAIN kept |-> kept[i].c]

LABEL_CAP == 160

normalizeText(s) ==
    LET t == TrimEnd(TrimStart(s))
        l == [i \in DOMAIN t |-> LowerChar(t[i])]
        c == CollapseSpaces(l)
    IN  SubSeq(c, 1, IF Len(c) < LABEL_CAP THEN Len(c) ELSE LABEL_CAP)

\* el.labelText is the innerText of the label the three lookups of the code
\* resolve (label[for], wrapping label, aria-labelledby), << >> when none
getLabelText(el) == IF el.labelText # << >> THEN normalizeText(el.labelText) ELSE << >>

FormActionOf(el) == IF el.formAction # "" THEN el.formAction ELSE PathName

getFingerprint(el) ==
    [tag |-> el.tag, type |-> el.type, name |-> el.name,
     autocomplete |-> el.autocomplete, placeholder |-> el.placeholder,
     ariaLabel |-> el.ariaLabel, ariaLabelledBy |-> el.ariaLabelledBy,
     labelText |-> getLabelText(el), testid |-> el.testid,
     formAction |-> FormActionOf(el)]

scoreMatch_NameOnly(fp, el) ==
      (IF el.tag = fp.tag THEN 3 ELSE 0)
    + (IF el.type = fp.type THEN 3 ELSE 0)
    + (IF fp.formAction # "" /\ FormActionOf(el) = fp.formAction THEN 2 ELSE 0)
    + (IF fp.name # "" /\ el.name = fp.name THEN 10 ELSE 0)

scoreMatch(fp, el) ==
      (IF el.tag = fp.tag THEN 3 ELSE 0)
    + (IF el.type = fp.type THEN 3 ELSE 0)
    + (IF fp.formAction # "" /\ FormActionOf(el) = fp.formAction THEN 2 ELSE 0)
    + (IF fp.name # "" /\ el.name = fp.name THEN 10 ELSE 0)
    + (IF fp.testid # "" /\ el.testid = fp.testid THEN 12 ELSE 0)
    + (IF fp.placeholder # "" /\ el.placeholder = fp.placeholder THEN 5 ELSE 0)
    + (IF fp.autocomplete # "" /\ el.autocomplete = fp.autocomplete THEN 3 ELSE 0)
    + (IF fp.ariaLabel # "" /\ el.ariaLabel = fp.ariaLabel THEN 6 ELSE 0)
    + (IF fp.labelText # << >> /\ getLabelText(el) # << >>
          /\ getLabelText(el) = normalizeText(fp.labelText) THEN 10 ELSE 0)

\* The loop of findBestByFingerprint over the controls from position i on;
\* the result is a position of d, 0 for null
RECURSIVE BestFrom(_, _, _, _, _)
BestFrom_LastWins(d, fp, i, best, bestScore) ==
    IF i > Len(d) THEN (IF bestScore >= FP_THRESHOLD THEN best ELSE 0)
    ELSE IF d[i].present /\ isUsableControl(d[i]) /\ scoreMatch(fp, d[i]) >= bestScore
         THEN BestFrom(d, fp, i + 1, i, scoreMatch(fp, d[i]))
         ELSE BestFrom(d, fp, i + 1, best, bestScore)

BestFrom(d, fp, i, best, bestScore) ==
    IF i > Len(d) THEN (IF bestScore >= FP_THRESHOLD THEN best ELSE 0)
    ELSE IF d[i].present /\ isUsableControl(d[i]) /\ scoreMatch(fp, d[i]) > bestScore
         THEN BestFrom(d, fp, i + 1, i, scoreMatch(fp, d[i]))
         ELSE BestFrom(d, fp, i + 1, best, bestScore)

findBestByFingerprint(d, fp) == BestFrom(d, fp, 1, 0, 0)

\* The first control of the document among `hits`, 0 for null
FirstOf(hits) == IF hits = {} THEN 0 ELSE CHOOSE i \in hits : \A j \in hits : i <= j

findElementByStableId(d, stable) ==
    IF stable.kind = "id"
    THEN FirstOf({i \in DOMAIN d : d[i].present /\ d[i].id = stable.value})
    ELSE IF stable.kind = "name"
    THEN FirstOf({i \in DOMAIN d : /\ d[i].present
                                   /\ d[i].tag = stable.tag /\ d[i].name = stable.value})
    ELSE IF stable.kind = "path"
    THEN FirstOf({i \in DOMAIN d : d[i].present /\ cssPath(d, i) = stable.value})
    ELSE 0

\* ------------------------------------------------------------------ value codec
readControlValue(el) ==
    IF el.tag = "INPUT"
    THEN IF TypeProp(el) = "checkbox" THEN [t |-> "checkbox", checked |-> el.checked]
         ELSE IF TypeProp(el) = "radio"
              THEN [t |-> "radio", checked |-> el.checked, value |-> el.value]
              ELSE [t |-> "input", value |-> el.value]
    ELSE IF el.tag = "TEXTAREA" THEN [t |-> "textarea", value |-> el.value]
    ELSE IF el.multiple
         THEN [t |-> "select-multiple", selectedIndexes |-> el.selected,
               values |-> [i \in el.selected |-> el.options[i + 1]]]
         ELSE [t |-> "select", selectedIndex |-> el.selectedIndex, value |-> SelectValue(el)]

\* el.value = data.value ?? ""
WriteText_Dropped(d, i, data) == d

WriteText(d, i, data) == [d EXCEPT ![i].value = data.value]

\* writeControlValue on the control at position i; the result is the new DOM
writeControlValue(d, i, data) ==
    LET el == d[i] IN
    IF el.tag = "INPUT" /\ TypeProp(el) = "checkbox" /\ data.t = "checkbox"
        THEN SetChecked(d, i, data.checked)
    ELSE IF el.tag = "INPUT" /\ TypeProp(el) = "radio" /\ data.t = "radio"
        THEN SetChecked(d, i, data.checked)
    ELSE IF el.tag = "INPUT" /\ data.t = "input"
        THEN WriteText(d, i, data)
    ELSE IF el.tag = "TEXTAREA" /\ data.t = "textarea"
        THEN WriteText(d, i, data)
    ELSE IF el.tag = "SELECT" /\ el.multiple /\ data.t = "select-multiple"
        THEN [d EXCEPT ![i].selected =
                 {n \in data.selectedIndexes : n + 1 \in DOMAIN el.options}]
    ELSE IF el.tag = "SELECT" /\ ~el.multiple /\ data.t = "select"
        THEN IF "value" \in DOMAIN data THEN [d EXCEPT ![i] = SetSelectValue(el, data.value)]
             ELSE IF "selectedIndex" \in DOMAIN data
                  THEN [d EXCEPT ![i] = SetSelectedIndex(el, data.selectedIndex)]
                  ELSE d
    ELSE d

\* ------------------------------------------------------------------ state
VARIABLES
    dom,         \* the controls of the document, in document order
    changedMap,  \* staged changes: a Map, kept as the list of its entries in insertion order
    saveTimer,   \* the handle scheduleSave keeps: a timer id, 0 for null
    timers,      \* timer id -> ms left until a live setTimeout(saveCurrentPage) is due, -1 when not live
    restoring,   \* the guard flag
    flights,     \* the suspended runs of saveCurrentPage
    attempts,    \* the RESTORE requests of this page load
    store,       \* chrome.storage.local[STORAGE_KEY]: page key -> PageRecord
    quota,       \* chrome.storage.local.QUOTA_BYTES
    clock,       \* Date.now()
    budget,      \* what is left of the bounds: edits, restores, reloads
    \* what an observer of the page knows (no code reads these)
    quiet,       \* ms since the most recent tracked change, capped at SAVE_DEBOUNCE_MS
    seq,         \* number of tracked events since the script started
    lastTracked  \* StableKey -> the value read at the most recent tracked event of that key

vars == <<dom, changedMap, saveTimer, timers, restoring, flights, attempts, store,
          quota, clock, budget, quiet, seq, lastTracked>>

obs == <<quiet, seq, lastTracked>>

TimerIds == 1..MaxTimers
FlightIds == 1..MaxFlights
AttemptIds == 1..MaxAttempts
PageKeys == {PAGE, OTHER_PAGE}

Min(a, b) == IF a < b THEN a ELSE b
Max(a, b) == IF a > b THEN a ELSE b
MinOf(S) == CHOOSE x \in S : \A y \in S : x <= y

\* ---- a JavaScript Map as the list of its entries [k, v] in insertion order
MapHas(m, k) == \E n \in DOMAIN m : m[n].k = k
MapGet(m, k) == m[CHOOSE n \in DOMAIN m : m[n].k = k].v
MapSet(m, k, v) ==
    IF MapHas(m, k) THEN [n \in DOMAIN m |-> IF m[n].k = k THEN [k |-> k, v |-> v] ELSE m[n]]
    ELSE Append(m, [k |-> k, v |-> v])
MapDelete(m, k) == SelectSeq(m, LAMBDA e : e.k # k)
MapKeys(m) == {m[n].k : n \in DOMAIN m}
MapValues(m) == [n \in DOMAIN m |-> m[n].v]

\* ------------------------------------------------------------------ change tracker
\* The part of the state the event listeners read and write
Ctx == [dom |-> dom, changedMap |-> changedMap, saveTimer |-> saveTimer,
        timers |-> timers, restoring |-> restoring, applied |-> 0,
        quiet |-> quiet, seq |-> seq, lastTracked |-> lastTracked]

recordChange_FirstWins(cm, d, i) ==
    IF MapHas(cm, stableKey(getStableId(d, i))) THEN cm
    ELSE MapSet(cm, stableKey(getStableId(d, i)),
                [id |-> getStableId(d, i), tag |-> d[i].tag, type |-> d[i].type,
                 value |-> readControlValue(d[i]), fingerprint |-> getFingerprint(d[i])])

recordChange(cm, d, i) ==
    MapSet(cm, stableKey(getStableId(d, i)),
           [id |-> getStableId(d, i), tag |-> d[i].tag, type |-> d[i].type,
            value |-> readControlValue(d[i]), fingerprint |-> getFingerprint(d[i])])

\* clearTimeout(saveTimer), then setTimeout(saveCurrentPage, SAVE_DEBOUNCE_MS)
scheduleSave_NoClear(c) ==
    LET free == {t \in TimerIds : c.timers[t] = -1}
        id == IF free = {} THEN c.saveTimer ELSE MinOf(free)
    IN  [c EXCEPT !.timers = [c.timers EXCEPT ![id] = SAVE_DEBOUNCE_MS], !.saveTimer = id]

scheduleSave(c) ==
    LET cleared == IF c.saveTimer # 0 THEN [c.timers EXCEPT ![c.saveTimer] = -1] ELSE c.timers
        id == MinOf({t \in TimerIds : cleared[t] = -1})
    IN  [c EXCEPT !.timers = [cleared EXCEPT ![id] = SAVE_DEBOUNCE_MS], !.saveTimer = id]

\* What the observer notes when the event on position i is tracked
Tracked(c, i) ==
    [c EXCEPT !.quiet = 0, !.seq = @ + 1,
              !.lastTracked = [k \in DOMAIN @ \cup {stableKey(getStableId(c.dom, i))} |->
                                  IF k = stableKey(getStableId(c.dom, i))
                                  THEN readControlValue(c.dom[i]) ELSE @[k]]]

\* The "input" listener on the event's target, the control at position i
inputListener_AnyEvent(c, i, isTrusted) ==
    IF c.restoring THEN c
    ELSE IF ~isUsableControl(c.dom[i]) THEN c
    ELSE scheduleSave(Tracked([c EXCEPT !.changedMap = recordChange(c.changedMap, c.dom, i)], i))

inputListener(c, i, isTrusted) ==
    IF c.restoring THEN c
    ELSE IF ~isTrusted THEN c
    ELSE IF ~isUsableControl(c.dom[i]) THEN c
    ELSE scheduleSave(Tracked([c EXCEPT !.changedMap = recordChange(c.changedMap, c.dom, i)], i))

\* The "change" listener
changeListener(c, i, isTrusted) ==
    IF c.restoring THEN c
    ELSE IF ~isTrusted THEN c
    ELSE IF ~isUsableControl(c.dom[i]) THEN c
    ELSE scheduleSave(Tracked([c EXCEPT !.changedMap = recordChange(c.changedMap, c.dom, i)], i))

\* ------------------------------------------------------------------ restore engine
\* el.dispatchEvent(new Event("input")), then "change": events of a script, not trusted
dispatchInputChange(c, i) == changeListener(inputListener(c, i, FALSE), i, FALSE)

\* A radio takes a stored radio value only if its value attribute is the stored one
RadioMismatch_Never(el, item) == FALSE

RadioMismatch(el, item) ==
    /\ el.tag = "INPUT" /\ TypeProp(el) = "radio" /\ item.value.t = "radio"
    /\ el.value # item.value.value

\* applyToElement on position i (0 for null): the new state and the returned flag;
\* c.applied counts the value writes (each followed by the two dispatched events)
applyToElement(c, i, item) ==
    IF i = 0 THEN [c |-> c, ok |-> FALSE]
    ELSE IF ~isUsableControl(c.dom[i]) THEN [c |-> c, ok |-> FALSE]
    ELSE IF RadioMismatch(c.dom[i], item) THEN [c |-> c, ok |-> FALSE]
    ELSE [c |-> dispatchInputChange(
                    [c EXCEPT !.dom = writeControlValue(c.dom, i, item.value),
                              !.applied = @ + 1], i),
          ok |-> TRUE]

\* The loop "for (const el of all) if (applyToElement(el, item)) any = true" over the
\* positions in `all`, from position i on
RECURSIVE ApplyAll(_, _, _, _, _)
ApplyAll_FirstOnly(c, all, i, item, any) ==
    IF i > Len(c.dom) \/ any THEN [c |-> c, ok |-> any]
    ELSE IF i \in all
         THEN LET r == applyToElement(c, i, item)
              IN  ApplyAll(r.c, all, i + 1, item, any \/ r.ok)
         ELSE ApplyAll(c, all, i + 1, item, any)

ApplyAll(c, all, i, item, any) ==
    IF i > Len(c.dom) THEN [c |-> c, ok |-> any]
    ELSE IF i \in all
         THEN LET r == applyToElement(c, i, item)
              IN  ApplyAll(r.c, all, i + 1, item, any \/ r.ok)
         ELSE ApplyAll(c, all, i + 1, item, any)

\* The three steps of one turn of the loop of tryRestoreItems, for the pending
\* item: each gives the new state and whether the item was applied ("continue")
ByFingerprint(c, item) ==
    applyToElement(c, findBestByFingerprint(c.dom, item.fingerprint), item)

OrByFingerprint(r, item) == IF r.ok THEN r ELSE ByFingerprint(r.c, item)

ByStableId(c, item) ==
    OrByFingerprint(applyToElement(c, findElementByStableId(c.dom, item.id), item), item)

OrByStableId(r, item) == IF r.ok THEN r ELSE ByStableId(r.c, item)

ByName(c, item) ==
    IF item.id.kind = "name" /\ item.id.value # "" /\ item.id.tag # ""
    THEN ApplyAll(c, {i \in DOMAIN c.dom :
                        /\ c.dom[i].present /\ Lower(c.dom[i].tag) = Lower(item.id.tag)
                        /\ c.dom[i].name = item.id.value /\ isUsableControl(c.dom[i])},
                  1, item, FALSE)
    ELSE [c |-> c, ok |-> FALSE]

RestoreItem(c, item) == OrByStableId(ByName(c, item), item)

\* tryRestoreItems over the entries of `todo` (the entries of pending when the loop
\* starts): the new state and the new pending
RECURSIVE tryRestoreItems(_, _, _)
AfterItem(r, pending, todo) ==
    tryRestoreItems(r.c, IF r.ok THEN MapDelete(pending, Head(todo).k) ELSE pending,
                    Tail(todo))

tryRestoreItems(c, pending, todo) ==
    IF todo = << >> THEN [c |-> c, pending |-> pending]
    ELSE AfterItem(RestoreItem(c, Head(todo).v), pending, todo)

\* A matching pass on a pending map
Pass(c, pending) == tryRestoreItems(c, pending, pending)

\* The pending map restoreWithRetries builds from entry.data
RECURSIVE PendingOf(_)
PendingOf(data) ==
    IF data = << >> THEN << >>
    ELSE LET rest == PendingOf(SubSeq(data, 1, Len(data) - 1))
         IN  MapSet(rest, stableKey(data[Len(data)].id), data[Len(data)])

\* ------------------------------------------------------------------ persistence
\* The store and the `pages` objects are Maps from page key to PageRecord
\* [updatedAt, data]; Object.keys lists them in insertion order.
loadAllPages == store

HasData(rec) == "data" \in DOMAIN rec

RECURSIVE RecordBytes(_)
\* The size of the PageRecords, in units of one stored object: one per PageRecord
\* and one per FieldRecord
RecordBytes(pages) ==
    IF pages = << >> THEN 0
    ELSE 1 + (IF HasData(Head(pages).v) THEN Len(Head(pages).v.data) ELSE 0)
           + RecordBytes(Tail(pages))

\* chrome.storage.local.getBytesInUse(null) once the key has been written: one
\* unit for the key with its object, however many PageRecords it holds
BytesOf(pages) == 1 + RecordBytes(pages)

UpdatedAt(rec) == IF "updatedAt" \in DOMAIN rec THEN rec.updatedAt ELSE 0

\* keys.sort((a, b) => updatedAt(a) - updatedAt(b)): a stable sort, oldest first
SortedInsert_Appends(sorted, k, pages) == Append(sorted, k)

RECURSIVE SortedInsert(_, _, _)
SortedInsert(sorted, k, pages) ==
    IF sorted = << >> THEN <<k>>
    ELSE IF UpdatedAt(MapGet(pages, k)) < UpdatedAt(MapGet(pages, Head(sorted)))
         THEN <<k>> \o sorted
         ELSE <<Head(sorted)>> \o SortedInsert(Tail(sorted), k, pages)

RECURSIVE SortOldestFirst(_, _)
SortOldestFirst(keys, pages) ==
    IF keys = << >> THEN << >>
    ELSE SortedInsert(SortOldestFirst(SubSeq(keys, 1, Len(keys) - 1), pages),
                      keys[Len(keys)], pages)

Target == (quota * TARGET_RATIO_PCT) \div 100

\* seq: the number of tracked events when the run started (for the observer)
IdleFlight == [pc |-> "idle", pages |-> << >>, keys |-> << >>, used |-> 0, seq |-> 0]

\* Merge of the persisted fields of the page with the staged changes
MergeExisting_Dropped(data) == << >>

RECURSIVE MergeExisting(_)
MergeExisting(data) ==
    IF data = << >> THEN << >>
    ELSE MapSet(MergeExisting(SubSeq(data, 1, Len(data) - 1)),
                stableKey(data[Len(data)].id), data[Len(data)])

MergeChanged_Appends(merged, cm) == merged \o cm

RECURSIVE MergeChanged(_, _)
MergeChanged(merged, cm) ==
    IF cm = << >> THEN merged
    ELSE MergeChanged(MapSet(merged, Head(cm).k, Head(cm).v), Tail(cm))

Merged(pages, cm) ==
    MergeChanged(IF MapHas(pages, PAGE) /\ HasData(MapGet(pages, PAGE))
                 THEN MergeExisting(MapGet(pages, PAGE).data) ELSE << >>, cm)

\* saveCurrentPage, from its start to the await of loadAllPages
StartSave(cm, fl) ==
    IF cm = << >> THEN fl
    ELSE LET f == MinOf({g \in FlightIds : fl[g].pc = "idle"})
         IN  [fl EXCEPT ![f] = [IdleFlight EXCEPT !.pc = "load", !.seq = seq]]

\* A timer of scheduleSave comes due and runs saveCurrentPage
TimerFires(t) ==
    /\ timers[t] = 0
    /\ changedMap # << >> => \E g \in FlightIds : flights[g].pc = "idle"
    /\ timers' = [timers EXCEPT ![t] = -1]
    /\ flights' = StartSave(changedMap, flights)
    /\ UNCHANGED <<dom, changedMap, saveTimer, restoring, attempts, store, quota, clock,
                   budget, obs>>

\* An await of saveCurrentPage or cleanupIfNeeded rejects: the catch ends the run
Abort(f) == flights' = [flights EXCEPT ![f] = IdleFlight]

\* loadAllPages resolves: merge, build the PageRecord, call saveAllPages
FlushLoaded(f, ok) ==
    /\ flights[f].pc = "load"
    /\ IF ok
       THEN LET pages == loadAllPages
                rec == [updatedAt |-> clock, data |-> MapValues(Merged(pages, changedMap))]
            IN  /\ flights' = [flights EXCEPT ![f].pc = "save",
                                              ![f].pages = MapSet(pages, PAGE, rec)]
                /\ clock' = clock + 1
       ELSE Abort(f) /\ UNCHANGED clock
    /\ UNCHANGED <<dom, changedMap, saveTimer, timers, restoring, attempts, store, quota,
                   budget, obs>>

\* cleanupIfNeeded, from its start to its first await
StartCleanup_Always(fl) == [fl EXCEPT !.pc = "bytes"]

StartCleanup(fl) ==
    IF quota <= 0 THEN IdleFlight ELSE [fl EXCEPT !.pc = "bytes"]

\* saveAllPages resolves: clear the staged map, start cleanupIfNeeded
FlushSaved_ClearsAlways(f, ok) ==
    /\ flights[f].pc = "save"
    /\ changedMap' = << >>
    /\ IF ok
       THEN /\ store' = flights[f].pages
            /\ flights' = [flights EXCEPT ![f] = StartCleanup(flights[f])]
       ELSE /\ Abort(f)
            /\ UNCHANGED store
    /\ UNCHANGED <<dom, saveTimer, timers, restoring, attempts, quota, clock, budget, obs>>

FlushSaved(f, ok) ==
    /\ flights[f].pc = "save"
    /\ IF ok
       THEN /\ store' = flights[f].pages
            /\ changedMap' = << >>
            /\ flights' = [flights EXCEPT ![f] = StartCleanup(flights[f])]
       ELSE /\ Abort(f)
            /\ UNCHANGED <<store, changedMap>>
    /\ UNCHANGED <<dom, saveTimer, timers, restoring, attempts, quota, clock, budget, obs>>

\* The loop of cleanupIfNeeded from the test of one turn to the next await:
\* "if (used <= target) break; delete pages[k]; await saveAllPages(pages)"
EvictNext_SkipsKey(fl, used) ==
    IF fl.keys = << >> \/ used <= Target THEN IdleFlight
    ELSE [fl EXCEPT !.pc = "csave", !.used = used,
                    !.pages = MapDelete(fl.pages, Head(fl.keys)),
                    !.keys = IF Len(fl.keys) > 1 THEN Tail(Tail(fl.keys)) ELSE << >>]

EvictNext(fl, used) ==
    IF fl.keys = << >> \/ used <= Target THEN IdleFlight
    ELSE [fl EXCEPT !.pc = "csave", !.used = used,
                    !.pages = MapDelete(fl.pages, Head(fl.keys)), !.keys = Tail(fl.keys)]

\* The first getBytesUsed of cleanupIfNeeded resolves
CleanupMeasured(f, ok) ==
    /\ flights[f].pc = "bytes"
    /\ IF ok
       THEN flights' = [flights EXCEPT ![f] =
                IF BytesOf(store) <= Target THEN IdleFlight
                ELSE [flights[f] EXCEPT !.pc = "cload", !.used = BytesOf(store)]]
       ELSE Abort(f)
    /\ UNCHANGED <<dom, changedMap, saveTimer, timers, restoring, attempts, store, quota,
                   clock, budget, obs>>

\* loadAllPages of cleanupIfNeeded resolves: sort the keys, enter the loop
CleanupLoaded(f, ok) ==
    /\ flights[f].pc = "cload"
    /\ IF ok
       THEN LET pages == loadAllPages
                keys == SortOldestFirst([n \in DOMAIN pages |-> pages[n].k], pages)
            IN  flights' = [flights EXCEPT ![f] =
                    EvictNext([flights[f] EXCEPT !.pages = pages, !.keys = keys],
                              flights[f].used)]
       ELSE Abort(f)
    /\ UNCHANGED <<dom, changedMap, saveTimer, timers, restoring, attempts, store, quota,
                   clock, budget, obs>>

\* saveAllPages of the loop resolves: the deletion is persisted, measure again
CleanupSaved(f, ok) ==
    /\ flights[f].pc = "csave"
    /\ IF ok
       THEN /\ store' = flights[f].pages
            /\ flights' = [flights EXCEPT ![f].pc = "cbytes"]
       ELSE Abort(f) /\ UNCHANGED store
    /\ UNCHANGED <<dom, changedMap, saveTimer, timers, restoring, attempts, quota, clock,
                   budget, obs>>

\* getBytesUsed of the loop resolves: next turn of the loop
CleanupRemeasured(f, ok) ==
    /\ flights[f].pc = "cbytes"
    /\ IF ok
       THEN flights' = [flights EXCEPT ![f] = EvictNext(flights[f], BytesOf(store))]
       ELSE Abort(f)
    /\ UNCHANGED <<dom, changedMap, saveTimer, timers, restoring, attempts, store, quota,
                   clock, budget, obs>>

\* ------------------------------------------------------------------ RESTORE
\* via: what resolved the attempt (for the observer)
IdleAttempt == [pc |-> "idle", pending |-> << >>, timer |-> -1, responses |-> << >>,
                applied |-> 0, via |-> ""]

NoSavedData == [ok |-> FALSE, reason |-> "No saved data for this page."]

\* The popup sends FORM_SAVER_RESTORE: restoreCurrentPage up to the await of loadAllPages
RestoreRequested(a) ==
    /\ budget.restores > 0
    /\ attempts[a].pc = "idle"
    /\ \A b \in AttemptIds : b < a => attempts[b].pc # "idle"
    /\ attempts' = [attempts EXCEPT ![a].pc = "load"]
    /\ budget' = [budget EXCEPT !.restores = @ - 1]
    /\ UNCHANGED <<dom, changedMap, saveTimer, timers, restoring, flights, store, quota,
                   clock, obs>>

\* The state after the event listeners have run inside a matching pass
AfterPass(c) ==
    /\ dom' = c.dom
    /\ changedMap' = c.changedMap
    /\ saveTimer' = c.saveTimer
    /\ timers' = c.timers
    /\ quiet' = c.quiet
    /\ seq' = c.seq
    /\ lastTracked' = c.lastTracked

\* restoreCurrentPage finds no entry, or an entry without a data array
NotFound_Guarded(a) ==
    /\ attempts' = [attempts EXCEPT ![a].pc = "done", ![a].via = "no record",
                                    ![a].responses = Append(@, NoSavedData)]
    /\ restoring' = TRUE
    /\ UNCHANGED <<dom, changedMap, saveTimer, timers, obs>>

NotFound(a) ==
    /\ attempts' = [attempts EXCEPT ![a].pc = "done", ![a].via = "no record",
                                    ![a].responses = Append(@, NoSavedData)]
    /\ UNCHANGED <<dom, changedMap, saveTimer, timers, restoring, obs>>

\* restoreWithRetries after the first pass r: resolved at once, resolved because
\* obs.observe threw, or waiting for mutations and the timer; with the "finally"
\* of restoreCurrentPage when it has resolved
AfterFirstPass(a, r, observeOk) ==
    /\ AfterPass(r.c)
    /\ IF r.pending = << >>
       THEN /\ attempts' = [attempts EXCEPT
                  ![a].pc = "done", ![a].applied = r.c.applied, ![a].via = "first pass",
                  ![a].responses = Append(@, [ok |-> TRUE])]
            /\ restoring' = FALSE
       ELSE IF ~observeOk
       THEN /\ attempts' = [attempts EXCEPT
                  ![a].pc = "done", ![a].applied = r.c.applied, ![a].via = "observe threw",
                  ![a].pending = r.pending,
                  ![a].responses = Append(@, [ok |-> r.pending = << >>,
                                              missing |-> Len(r.pending)])]
            /\ restoring' = FALSE
       ELSE /\ attempts' = [attempts EXCEPT
                  ![a].pc = "wait", ![a].applied = r.c.applied,
                  ![a].pending = r.pending, ![a].timer = RESTORE_RETRY_MS]
            /\ restoring' = TRUE

\* loadAllPages of restoreCurrentPage resolves (or rejects: nothing catches it and
\* sendResponse is never called).  With a record: set the flag, run restoreWithRetries
\* up to its return or to the timer it sets; observeOk is whether obs.observe succeeds.
RestoreLoaded(a, ok, observeOk) ==
    /\ attempts[a].pc = "load"
    /\ IF ~ok
       THEN /\ attempts' = [attempts EXCEPT ![a].pc = "lost"]
            /\ UNCHANGED <<dom, changedMap, saveTimer, timers, restoring, obs>>
       ELSE IF ~MapHas(loadAllPages, PAGE) \/ ~HasData(MapGet(loadAllPages, PAGE))
       THEN NotFound(a)
       ELSE AfterFirstPass(a, Pass([Ctx EXCEPT !.restoring = TRUE],
                                   PendingOf(MapGet(loadAllPages, PAGE).data)),
                           observeOk)
    /\ UNCHANGED <<flights, store, quota, clock, budget>>

\* The MutationObserver callback of attempt a after its pass r: resolve when
\* pending is empty
Observed_Waits(at, r) == [at EXCEPT !.pending = r.pending, !.applied = @ + r.c.applied]

Observed(at, r) ==
    IF r.pending = << >>
    THEN [at EXCEPT !.pending = r.pending, !.applied = @ + r.c.applied, !.pc = "done",
                    !.via = "observer", !.responses = Append(@, [ok |-> TRUE])]
    ELSE [at EXCEPT !.pending = r.pending, !.applied = @ + r.c.applied]

\* The callbacks of the waiting attempts, in the order the observers were
\* created, from attempt a on
RECURSIVE NotifyObservers_NoDisconnect(_, _, _)
NotifyObservers_NoDisconnect(c, atts, a) ==
    IF a > MaxAttempts THEN [c |-> c, atts |-> atts]
    ELSE IF atts[a].pc \notin {"wait", "done"} THEN NotifyObservers_NoDisconnect(c, atts, a + 1)
    ELSE LET r == Pass([c EXCEPT !.applied = 0], atts[a].pending)
         IN NotifyObservers_NoDisconnect(
                r.c, [atts EXCEPT ![a] = [@ EXCEPT !.pending = r.pending,
                                                   !.applied = @ + r.c.applied]], a + 1)

RECURSIVE NotifyObservers(_, _, _)
AfterCallback(r, atts, a) ==
    NotifyObservers(r.c, [atts EXCEPT ![a] = Observed(atts[a], r)], a + 1)

NotifyObservers(c, atts, a) ==
    IF a > MaxAttempts THEN [c |-> c, atts |-> atts]
    ELSE IF atts[a].pc # "wait" THEN NotifyObservers(c, atts, a + 1)
    ELSE AfterCallback(Pass([c EXCEPT !.applied = 0], atts[a].pending), atts, a)

\* The state after a batch: the "finally" of every attempt that resolved runs
\* after the callbacks
AfterBatch(r) ==
    /\ AfterPass(r.c)
    /\ attempts' = r.atts
    /\ restoring' = IF \E a \in AttemptIds : attempts[a].pc = "wait" /\ r.atts[a].pc = "done"
                    THEN FALSE ELSE restoring

\* The page renders the controls in R (possibly none) and the batch is delivered
MutationBatch(R) ==
    /\ R \subseteq {i \in DOMAIN dom : dom[i].late /\ ~dom[i].present}
    /\ AfterBatch(NotifyObservers(
           [Ctx EXCEPT !.dom = [i \in DOMAIN dom |->
                                   IF i \in R THEN [dom[i] EXCEPT !.present = TRUE]
                                   ELSE dom[i]]],
           attempts, 1))
    /\ UNCHANGED <<flights, store, quota, clock, budget>>

\* resolve({ ok: pending.size === 0, missing: pending.size })
TimeoutResponse_AlwaysOk(pending) == [ok |-> TRUE, missing |-> Len(pending)]

TimeoutResponse(pending) == [ok |-> pending = << >>, missing |-> Len(pending)]

\* The timer of restoreWithRetries comes due: disconnect, resolve (a second
\* resolve of a settled promise does nothing)
RestoreTimeout(a) ==
    /\ attempts[a].timer = 0
    /\ IF attempts[a].pc = "wait"
       THEN /\ attempts' = [attempts EXCEPT
                  ![a].pc = "done", ![a].timer = -1, ![a].via = "timeout",
                  ![a].responses = Append(@, TimeoutResponse(attempts[a].pending))]
            /\ restoring' = FALSE
       ELSE /\ attempts' = [attempts EXCEPT ![a].timer = -1]
            /\ UNCHANGED restoring
    /\ UNCHANGED <<dom, changedMap, saveTimer, timers, flights, store, quota, clock,
                   budget, obs>>

\* ------------------------------------------------------------------ the user and the page
CanEdit(i) == /\ budget.edits > 0
              /\ dom[i].present /\ ~dom[i].disabled
              /\ \E t \in TimerIds : timers[t] = -1 \/ t = saveTimer

IsTextLike(el) == \/ el.tag = "TEXTAREA"
                  \/ el.tag = "INPUT" /\ isUsableControl(el)
                                      /\ TypeProp(el) \notin {"radio", "checkbox"}

Spend == budget' = [budget EXCEPT !.edits = @ - 1]

\* The text the next interaction writes.  The code never looks into a text, so
\* every interaction writes a text of its own: "v1", "v2", ...
NextText == "v" \o ToString(MaxEdits - budget.edits + 1)

\* The user types v into a text field: a trusted "input" event
UserTypes(i) ==
    /\ CanEdit(i) /\ IsTextLike(dom[i])
    /\ AfterPass(inputListener([Ctx EXCEPT !.dom[i].value = NextText], i, TRUE))
    /\ Spend
    /\ UNCHANGED <<restoring, flights, attempts, store, quota, clock>>

\* The user clicks a radio button or a checkbox: trusted "input" and "change" events
UserClicks(i) ==
    /\ CanEdit(i) /\ dom[i].tag = "INPUT" /\ TypeProp(dom[i]) \in {"radio", "checkbox"}
    /\ TypeProp(dom[i]) = "radio" => ~dom[i].checked
    /\ AfterPass(changeListener(inputListener(
           [Ctx EXCEPT !.dom = SetChecked(dom, i, ~dom[i].checked)], i, TRUE), i, TRUE))
    /\ Spend
    /\ UNCHANGED <<restoring, flights, attempts, store, quota, clock>>

\* A script of the page writes a value and dispatches the events itself (not trusted)
ScriptWrites(i) ==
    /\ CanEdit(i) /\ IsTextLike(dom[i])
    /\ AfterPass(dispatchInputChange([Ctx EXCEPT !.dom[i].value = NextText], i))
    /\ Spend
    /\ UNCHANGED <<restoring, flights, attempts, store, quota, clock>>

\* ------------------------------------------------------------------ time
LiveDelays == {timers[t] : t \in {u \in TimerIds : timers[u] > 0}}
                  \cup {attempts[a].timer : a \in {b \in AttemptIds : attempts[b].timer > 0}}

\* Time passes: half a debounce period while a flush timer runs, or up to the next
\* time a timer is due.  Timers that are due fire later, by TimerFires and
\* RestoreTimeout: setTimeout promises no less than the delay, not the exact time.
TimeSteps == {d \in {SAVE_DEBOUNCE_MS \div 2} : \E t \in TimerIds : timers[t] > 0}
                 \cup (IF LiveDelays = {} THEN {} ELSE {MinOf(LiveDelays)})

TimePasses(d) ==
    /\ d \in TimeSteps
    /\ timers' = [t \in TimerIds |-> IF timers[t] > 0 THEN Max(0, timers[t] - d) ELSE timers[t]]
    /\ attempts' = [a \in AttemptIds |->
                       IF attempts[a].timer > 0
                       THEN [attempts[a] EXCEPT !.timer = Max(0, @ - d)] ELSE attempts[a]]
    /\ quiet' = Min(SAVE_DEBOUNCE_MS, quiet + d)
    /\ UNCHANGED <<dom, changedMap, saveTimer, restoring, flights, store, quota, clock,
                   budget, seq, lastTracked>>

\* ------------------------------------------------------------------ reload
Quiescent == /\ \A f \in FlightIds : flights[f].pc = "idle"
             /\ \A a \in AttemptIds : attempts[a].pc \notin {"load", "wait"}

\* The page is loaded again: a fresh document and a fresh content script; the
\* store stays.  The model reloads only when no storage operation and no RESTORE
\* is under way.
Reload ==
    /\ budget.reloads > 0 /\ Quiescent
    /\ dom' = [i \in DOMAIN dom |-> DefaultState(dom[i])]
    /\ changedMap' = << >>
    /\ saveTimer' = 0
    /\ timers' = [t \in TimerIds |-> -1]
    /\ restoring' = FALSE
    /\ flights' = [f \in FlightIds |-> IdleFlight]
    /\ attempts' = [a \in AttemptIds |-> IdleAttempt]
    /\ quiet' = SAVE_DEBOUNCE_MS
    /\ seq' = 0
    /\ budget' = [budget EXCEPT !.reloads = @ - 1]
    /\ UNCHANGED <<store, quota, clock, lastTracked>>

\* ------------------------------------------------------------------ specification
\* A record an earlier session left for another page
OldRecord == [updatedAt |-> 0,
              data |-> MapValues(recordChange(<< >>, <<[EmailEl EXCEPT !.value = "old"]>>, 1))]

\* What the script finds when it starts: the store and QUOTA_BYTES (0 stands for
\* a QUOTA_BYTES that is not a positive number).  An empty store; a store that
\* holds another page and is full after the next PageRecord; a PageRecord of
\* this page without a field list.
EmptyStore == [store |-> << >>, quota |-> 0]
FullStore == [store |-> <<[k |-> OTHER_PAGE, v |-> OldRecord]>>, quota |-> 4]
BrokenStore == [store |-> <<[k |-> PAGE, v |-> [updatedAt |-> 0]]>>, quota |-> 0]

\* The page loads explored: a page and what the script finds there
Loads == { [layout |-> NotesForm, env |-> EmptyStore],
           [layout |-> NotesForm, env |-> FullStore],
           [layout |-> ConfirmForm, env |-> EmptyStore],
           [layout |-> PlanForm, env |-> EmptyStore],
           [layout |-> PlanForm, env |-> BrokenStore] }

Init ==
    /\ \E l \in Loads : /\ dom = [i \in DOMAIN l.layout |-> DefaultState(l.layout[i])]
                        /\ store = l.env.store
                        /\ quota = l.env.quota
    /\ changedMap = << >>
    /\ saveTimer = 0
    /\ timers = [t \in TimerIds |-> -1]
    /\ restoring = FALSE
    /\ flights = [f \in FlightIds |-> IdleFlight]
    /\ attempts = [a \in AttemptIds |-> IdleAttempt]
    /\ clock = 1
    /\ quiet = SAVE_DEBOUNCE_MS
    /\ seq = 0
    /\ lastTracked = << >>
    /\ budget = [edits |-> MaxEdits, restores |-> MaxAttempts, reloads |-> MaxReloads]

Next ==
    \/ \E i \in DOMAIN dom : UserTypes(i)
    \/ \E i \in DOMAIN dom : UserClicks(i)
    \/ \E i \in DOMAIN dom : ScriptWrites(i)
    \/ \E d \in TimeSteps : TimePasses(d)
    \/ \E t \in TimerIds : TimerFires(t)
    \/ \E f \in FlightIds, ok \in BOOLEAN : FlushLoaded(f, ok)
    \/ \E f \in FlightIds, ok \in BOOLEAN : FlushSaved(f, ok)
    \/ \E f \in FlightIds, ok \in BOOLEAN : CleanupMeasured(f, ok)
    \/ \E f \in FlightIds, ok \in BOOLEAN : CleanupLoaded(f, ok)
    \/ \E f \in FlightIds, ok \in BOOLEAN : CleanupSaved(f, ok)
    \/ \E f \in FlightIds, ok \in BOOLEAN : CleanupRemeasured(f, ok)
    \/ \E a \in AttemptIds : RestoreRequested(a)
    \/ \E a \in AttemptIds, ok \in BOOLEAN, observeOk \in BOOLEAN : RestoreLoaded(a, ok, observeOk)
    \/ \E R \in SUBSET (DOMAIN dom) : MutationBatch(R)
    \/ \E a \in AttemptIds : RestoreTimeout(a)
    \/ Reload

Spec == Init /\ [][Next]_vars

\* ------------------------------------------------------------------ eviction alone
\* Runs of saveCurrentPage from the write of their payload on, over stores of up
\* to three pages of any age, in any order, and over several capacities: one run,
\* or two runs that have read the same store.
TwoFields ==
    MapValues(recordChange(recordChange(<< >>, <<EmailEl, [NotesEl EXCEPT !.present = TRUE]>>, 1),
                           <<EmailEl, [NotesEl EXCEPT !.present = TRUE]>>, 2))
OLDER_PAGE == "https://a.test/older"
\* PageRecords of earlier sessions: with and without updatedAt, of one or two fields
OldRecords ==
    {[updatedAt |-> u, data |-> d] : u \in 0..2, d \in {OldRecord.data, TwoFields}}
        \cup {[data |-> OldRecord.data]}
NewRecord == [updatedAt |-> 3, data |-> OldRecord.data]
LaterRecord == [updatedAt |-> 4, data |-> TwoFields]
Payloads ==
    LET new == <<[k |-> PAGE, v |-> NewRecord]>>
        one == {<<[k |-> OTHER_PAGE, v |-> r]>> : r \in OldRecords}
        two == {<<[k |-> OTHER_PAGE, v |-> r], [k |-> OLDER_PAGE, v |-> q]>> :
                   r \in OldRecords, q \in OldRecords}
    IN  {new} \cup {o \o new : o \in one \cup two} \cup {new \o o : o \in one}
\* QUOTA_BYTES is not a number: the run treats it like a capacity that is not positive
NoQuota == -1
Capacities == {NoQuota, 0, 1, 4, 6, 8}

EvictInit ==
    /\ dom = [i \in DOMAIN NotesForm |-> DefaultState(NotesForm[i])]
    /\ changedMap = << >>
    /\ saveTimer = 0
    /\ timers = [t \in TimerIds |-> -1]
    /\ restoring = FALSE
    /\ \E p \in Payloads, two \in BOOLEAN :
          /\ flights = [f \in FlightIds |->
                           IF f = 1 THEN [IdleFlight EXCEPT !.pc = "save", !.pages = p]
                           ELSE IF f = 2 /\ two
                           THEN [IdleFlight EXCEPT !.pc = "save",
                                                   !.pages = MapSet(p, PAGE, LaterRecord)]
                           ELSE IdleFlight]
          /\ store = MapDelete(p, PAGE)
    /\ attempts = [a \in AttemptIds |-> IdleAttempt]
    /\ quota \in Capacities
    /\ clock = 5
    /\ quiet = SAVE_DEBOUNCE_MS
    /\ seq = 0
    /\ lastTracked = << >>
    /\ budget = [edits |-> 0, restores |-> 0, reloads |-> 0]

EvictStep ==
    \/ \E f \in FlightIds, ok \in BOOLEAN : FlushSaved(f, ok)
    \/ \E f \in FlightIds, ok \in BOOLEAN : CleanupMeasured(f, ok)
    \/ \E f \in FlightIds, ok \in BOOLEAN : CleanupLoaded(f, ok)
    \/ \E f \in FlightIds, ok \in BOOLEAN : CleanupSaved(f, ok)
    \/ \E f \in FlightIds, ok \in BOOLEAN : CleanupRemeasured(f, ok)

EvictSpec == EvictInit /\ [][EvictStep]_vars

\* ------------------------------------------------------------------ properties
\* ---- what a step did
Responds(a) == Len(attempts'[a].responses) > Len(attempts[a].responses)
Response(a) == attempts'[a].responses[Len(attempts'[a].responses)]
\* the step in which attempt a reads a PageRecord with data and runs its first pass
FirstPass(a) ==
    /\ attempts[a].pc = "load"
    /\ attempts'[a].pc \in {"wait", "done"}
    /\ attempts'[a].via # "no record"

\* ---- what a state holds
\* The page was reloaded and no event has been tracked since
FreshLoad == budget.reloads < MaxReloads /\ saveTimer = 0
StoredFields ==
    IF MapHas(store, PAGE) /\ HasData(MapGet(store, PAGE)) THEN MapGet(store, PAGE).data
    ELSE << >>
StoredAt(k) == {StoredFields[n] : n \in {m \in DOMAIN StoredFields :
                                             stableKey(StoredFields[m].id) = k}}
KeyOf(i) == stableKey(getStableId(dom, i))
HasIdText(i) ==
    /\ dom[i].present /\ isUsableControl(dom[i])
    /\ dom[i].tag = "INPUT" /\ IsTextLike(dom[i]) /\ dom[i].id # ""
\* The matching cascade leads the FieldRecord rec to position i
LeadsTo(rec, i) ==
    \/ findElementByStableId(dom, rec.id) = i
    \/ /\ findElementByStableId(dom, rec.id) = 0
       /\ findBestByFingerprint(dom, rec.fingerprint) = i
Unmatched(rec) ==
    /\ findElementByStableId(dom, rec.id) = 0
    /\ findBestByFingerprint(dom, rec.fingerprint) = 0

IsNamedRadio(i) ==
    /\ dom[i].present /\ isUsableControl(dom[i])
    /\ dom[i].tag = "INPUT" /\ TypeProp(dom[i]) = "radio"
    /\ dom[i].id = "" /\ dom[i].name # ""
Group(i) == {j \in DOMAIN dom : IsNamedRadio(j) /\ dom[j].name = dom[i].name}

\* C2: for a radio group tracked by name (no ids) whose last selection a flush has
\* persisted, the RESTORE after a reload writes the checked state only to the radios
\* whose value attribute is the stored radio value, and afterwards a radio of the
\* group is checked exactly if it is the one the user selected last.
C2_RadioGroup ==
    [][\A a \in AttemptIds : \A i \in DOMAIN dom : \A rec \in StoredAt(KeyOf(i)) :
          (FirstPass(a) /\ FreshLoad /\ IsNamedRadio(i) /\ rec.value.t = "radio"
             /\ KeyOf(i) \in DOMAIN lastTracked /\ lastTracked[KeyOf(i)] = rec.value)
          => /\ \A j \in Group(i) :
                   dom'[j].checked <=> dom[j].value = lastTracked[KeyOf(i)].value
             /\ Len(StoredFields) = 1 =>
                   attempts'[a].applied =
                       Cardinality({j \in Group(i) : dom[j].value = rec.value.value})
             /\ Responds(a) /\ Response(a) = [ok |-> TRUE]]_vars

\* After two selections, a flush and a reload, one write of the attempt has checked
\* the radio that was selected last and left the other one of the group unchecked
C2_Witness ==
    \E a \in AttemptIds : \E i \in DOMAIN dom : \E rec \in StoredAt(KeyOf(i)) :
        /\ FreshLoad /\ IsNamedRadio(i) /\ budget.edits = 0
        /\ KeyOf(i) \in DOMAIN lastTracked /\ lastTracked[KeyOf(i)] = rec.value
        /\ attempts[a].responses = <<[ok |-> TRUE]>> /\ attempts[a].applied = 1
        /\ dom[i].checked /\ dom[i].value = rec.value.value
        /\ \E j \in Group(i) : ~dom[j].checked

\* ---- the persisted store
NoRecord == ~MapHas(store, PAGE) \/ ~HasData(MapGet(store, PAGE))

\* C3: when the storage read of a RESTORE finds no PageRecord for the page (or one
\* without a data array), the request is answered in that very step with
\* {ok: false, reason: "No saved data for this page."}; no field is touched, no
\* event is dispatched and the guard flag is left as it was, false unless another
\* attempt is waiting.
C3_NoRecord ==
    [][\A a \in AttemptIds :
          (attempts[a].pc = "load" /\ attempts'[a].pc \notin {"load", "lost"} /\ NoRecord)
          => /\ attempts'[a].responses = <<NoSavedData>>
             /\ attempts'[a].pc = "done" /\ attempts'[a].timer = -1
             /\ attempts'[a].applied = 0
             /\ dom' = dom /\ changedMap' = changedMap /\ timers' = timers
             /\ restoring' = restoring
             /\ (\A b \in AttemptIds : attempts[b].pc # "wait") => ~restoring']_vars

\* A RESTORE was answered "no saved data" on a page with a control and an empty store
C3_Witness ==
    \E a \in AttemptIds :
        /\ attempts[a].responses = <<NoSavedData>> /\ attempts[a].via = "no record"
        /\ NoRecord /\ ~restoring
        /\ \E i \in DOMAIN dom : dom[i].present /\ dom[i].value = DefaultState(dom[i]).value

\* C4: an answer of an attempt that found a PageRecord has ok true exactly when no
\* FieldRecord is left pending, every FieldRecord that left the pending set was
\* written to an element, and the answer of the timer with n > 0 FieldRecords still
\* pending is {ok: false, missing: n}.
C4_Answer ==
    [][\A a \in AttemptIds :
          /\ (Responds(a) /\ attempts'[a].via # "no record")
             => /\ Response(a).ok <=> attempts'[a].pending = << >>
                /\ attempts'[a].via = "timeout" /\ attempts'[a].pending # << >>
                      => Response(a) = [ok |-> FALSE,
                                        missing |-> Len(attempts'[a].pending)]
          /\ FirstPass(a)
             => attempts'[a].applied >= Len(StoredFields) - Len(attempts'[a].pending)
          /\ (attempts[a].pc = "wait" /\ attempts'[a].pc \in {"wait", "done"})
             => attempts'[a].applied - attempts[a].applied
                   >= Len(attempts[a].pending) - Len(attempts'[a].pending)]_vars

\* The timer of an attempt fired with one FieldRecord pending after another was written
C4_Witness ==
    \E a \in AttemptIds :
        /\ attempts[a].via = "timeout"
        /\ attempts[a].responses = <<[ok |-> FALSE, missing |-> 1]>>
        /\ Len(attempts[a].pending) = 1 /\ attempts[a].applied >= 1

\* C5: every RESTORE request gets exactly one response: no request has two, and a
\* request that is neither reading the store nor waiting for mutations or its timer
\* has one.
C5_Answered ==
    \A a \in AttemptIds :
        /\ Len(attempts[a].responses) <= 1
        /\ attempts[a].pc \notin {"idle", "load", "wait"} => Len(attempts[a].responses) = 1

\* C6: the guard flag is true from the start of an attempt that found a PageRecord
\* until that attempt has resolved, also when another request arrived meanwhile.
C6_GuardHeld == \A a \in AttemptIds : attempts[a].pc = "wait" => restoring

\* ---- what a step did to the tracker
Staged == \E n \in DOMAIN changedMap' : n \notin DOMAIN changedMap \/ changedMap'[n] # changedMap[n]
Scheduled == \E t \in TimerIds : timers'[t] > timers[t]
RestoreStep ==
    /\ budget.reloads' = budget.reloads
    /\ \E a \in AttemptIds : \/ attempts'[a].pc # attempts[a].pc
                             \/ attempts'[a].applied # attempts[a].applied
                             \/ attempts'[a].pending # attempts[a].pending

\* C7: an entry is staged or a flush scheduled only by a trusted event of the user on
\* a usable control while the guard flag is false; a step of a restore attempt, with
\* the value writes and the events it dispatches, changes neither the staged map nor
\* the flush timers nor the persisted store.
C7_NoSelfTrigger ==
    [][/\ (Staged \/ Scheduled \/ (seq' # seq /\ seq' # 0))
          => /\ ~restoring
             /\ \E i \in DOMAIN dom : isUsableControl(dom[i]) /\ (UserTypes(i) \/ UserClicks(i))
       /\ RestoreStep
          => /\ changedMap' = changedMap /\ store' = store
             /\ timers' = timers /\ saveTimer' = saveTimer]_vars

\* A restore attempt has written a value and dispatched its events on a freshly
\* loaded page: nothing is staged, no timer is live
C7_Witness ==
    /\ FreshLoad /\ changedMap = << >> /\ \A t \in TimerIds : timers[t] = -1
    /\ \E a \in AttemptIds : attempts[a].applied >= 1 /\ attempts[a].pc = "done"
    /\ \E i \in DOMAIN dom : \/ dom[i].value # DefaultState(dom[i]).value
                              \/ dom[i].checked # DefaultState(dom[i]).checked

\* ---- flush runs
LiveTimers == {t \in TimerIds : timers[t] >= 0}
InFlight == {f \in FlightIds : flights[f].pc # "idle"}
Starts(f) == flights[f].pc = "idle" /\ flights'[f].pc = "load"
Merges(f) == flights[f].pc = "load" /\ flights'[f].pc = "save"
Writes(f) == flights[f].pc = "save" /\ store' = flights[f].pages
Aborts(f) ==
    \/ flights[f].pc = "load" /\ flights'[f].pc = "idle"
    \/ flights[f].pc = "save" /\ flights'[f].pc = "idle" /\ store' = store
\* The fields of the page in the payload of run f after the step
Payload(f) == MapGet(flights'[f].pages, PAGE).data
PayloadAt(f, k) == {n \in DOMAIN Payload(f) : stableKey(Payload(f)[n].id) = k}

\* C8: at most one flush timer is live; a tracked event leaves exactly one, due
\* SAVE_DEBOUNCE_MS later; a flush starts only when no event was tracked for
\* SAVE_DEBOUNCE_MS; the staged map holds one entry per StableKey, with the value of
\* the last tracked event of that key, and the payload of a flush holds for each
\* staged key that one entry only.
C8_Debounce ==
    /\ [](/\ Cardinality(LiveTimers) <= 1
          /\ \A n, m \in DOMAIN changedMap : changedMap[n].k = changedMap[m].k => n = m
          /\ \A n \in DOMAIN changedMap :
                /\ changedMap[n].k \in DOMAIN lastTracked
                /\ changedMap[n].v.value = lastTracked[changedMap[n].k])
    /\ [][/\ (seq' # seq /\ seq' # 0)
             => \E t \in TimerIds : /\ saveTimer' = t /\ timers'[t] = SAVE_DEBOUNCE_MS
                                    /\ \A u \in TimerIds \ {t} : timers'[u] = -1
          /\ \A f \in FlightIds :
                /\ Starts(f) => quiet = SAVE_DEBOUNCE_MS
                /\ Merges(f)
                   => \A n \in DOMAIN changedMap :
                         \E m \in DOMAIN Payload(f) :
                            /\ PayloadAt(f, changedMap[n].k) = {m}
                            /\ Payload(f)[m].value = lastTracked[changedMap[n].k]]_vars

\* Two values were typed into one field within the debounce window and the one flush
\* that followed has persisted the second value only
C8_Witness ==
    /\ seq = 2 /\ budget.edits = 0 /\ clock = 2
    /\ Len(StoredFields) = 1
    /\ StoredFields[1].value = [t |-> "input", value |-> "v2"]

\* C9 as stated: never two runs of saveCurrentPage in flight for the page.
C9_Original == Cardinality(InFlight) <= 1

\* C9 amended: at most one flush timer is pending, a run of saveCurrentPage starts
\* only when that timer fires, and it starts while an earlier run is between its
\* storage read and the end of its write and eviction only if an event was tracked
\* after the earlier run started.
C9_Start ==
    [][\A f \in FlightIds :
          Starts(f)
          => /\ LiveTimers = {saveTimer}
             /\ timers[saveTimer] = 0 /\ timers'[saveTimer] = -1
             /\ \A g \in InFlight : flights[g].seq < seq]_vars

\* A second run has started while the first one is still in flight
C9_Witness ==
    /\ Cardinality(InFlight) = 2
    /\ \E f, g \in InFlight : flights[f].seq < flights[g].seq

\* C10: a flush whose storage read or write fails ends without any other effect: the
\* staged map, the store, the fields, the timers and the restore state are as before;
\* the staged map loses entries only in the step of a write that succeeded; and the
\* payload of a later flush holds every entry that is staged when it merges.
C10_Abort ==
    [][/\ \A f \in FlightIds :
             /\ Aborts(f)
                => /\ changedMap' = changedMap /\ store' = store /\ dom' = dom
                   /\ timers' = timers /\ saveTimer' = saveTimer
                   /\ restoring' = restoring /\ attempts' = attempts
                   /\ flights'[f] = IdleFlight
             /\ Merges(f)
                => \A n \in DOMAIN changedMap :
                      \E m \in DOMAIN Payload(f) : Payload(f)[m] = changedMap[n].v
       /\ (budget.reloads' = budget.reloads
             /\ \E n \in DOMAIN changedMap : ~MapHas(changedMap', changedMap[n].k))
          => \E f \in FlightIds : Writes(f) /\ changedMap' = << >>]_vars

\* After a failed flush: a change is staged, no timer is live, no run is in flight
\* and the store does not hold the change
C10_Witness ==
    /\ changedMap # << >> /\ LiveTimers = {} /\ InFlight = {} /\ saveTimer # 0
    /\ \A n \in DOMAIN changedMap : changedMap[n].v \notin StoredAt(changedMap[n].k)

\* ---- eviction runs
Evicting == {f \in FlightIds : flights[f].pc \in {"bytes", "cload", "csave", "cbytes"}}
\* The step in which the run f of cleanupIfNeeded returns
EvictEnds(f) ==
    /\ flights'[f].pc = "idle"
    /\ \/ flights[f].pc = "bytes" /\ BytesOf(store) <= Target
       \/ flights[f].pc = "cload" /\ store = << >>
       \/ flights[f].pc = "cbytes" /\ (flights[f].keys = << >> \/ BytesOf(store) <= Target)
\* The step in which the run f deletes a PageRecord from its copy of the store
Deletes(f) == flights[f].pc \in {"cload", "cbytes"} /\ flights'[f].pc = "csave"
SeqToSet(q) == {q[n] : n \in DOMAIN q}

\* C11 as stated: when an eviction run returns (the capacity is a positive number),
\* bytes in use is at most floor(0.90 x capacity) or the store holds no PageRecord.
C11_Original ==
    [][\A f \in FlightIds :
          EvictEnds(f) => (BytesOf(store') <= Target \/ store' = << >>)]_vars

\* C11 amended: when an eviction run returns, the capacity is a positive number and
\* bytes in use is at most floor(0.90 x capacity), or the run has deleted every
\* PageRecord it read and the store is empty unless another run of saveCurrentPage
\* has written it since; each turn of the loop deletes one of the PageRecords the
\* run has read and never the same twice, so the run makes at most as many
\* deletions as it read records.
C11_EvictionEnd ==
    /\ [][\A f \in FlightIds :
             /\ EvictEnds(f)
                => /\ quota > 0
                   /\ \/ BytesOf(store') <= Target
                      \/ store' = << >>
                      \/ /\ flights[f].pc = "cbytes" /\ flights[f].pages = << >>
                         /\ store # flights[f].pages
             /\ Deletes(f) => /\ Len(flights'[f].keys) = Len(flights'[f].pages)
                              /\ Len(flights'[f].pages) =
                                    (IF flights[f].pc = "cload" THEN Len(store)
                                     ELSE Len(flights[f].pages)) - 1]_vars
    /\ [](\A f \in FlightIds :
             flights[f].pc \in {"csave", "cbytes"}
             => MapKeys(flights[f].pages) = SeqToSet(flights[f].keys))

\* An eviction run has returned after deleting the older of two PageRecords: the
\* store is within the target and still holds the other ones
C11_Witness ==
    /\ Evicting = {} /\ quota > 0 /\ BytesOf(store) <= Target
    /\ MapHas(store, PAGE) /\ MapHas(store, OLDER_PAGE) /\ ~MapHas(store, OTHER_PAGE)

\* The store as run f holds it before a deletion: what loadAllPages has just
\* returned, or the copy the run keeps deleting from
Held(f) == IF flights[f].pc = "cload" THEN store ELSE flights[f].pages
\* The key the step deletes from the copy of run f
Deleted(f) == CHOOSE k \in MapKeys(Held(f)) : ~MapHas(flights'[f].pages, k)
Age(pages, k) == UpdatedAt(MapGet(pages, k))

\* C12 as stated: a record is deleted only when the store holds no record with a
\* smaller updatedAt and bytes in use is above the target.
C12_Original ==
    [][\A f \in FlightIds :
          Deletes(f) => /\ \A k \in MapKeys(store) : Age(Held(f), Deleted(f)) <= Age(store, k)
                        /\ BytesOf(store) > Target]_vars

\* C12 amended: an eviction run deletes the PageRecords it has read one at a time,
\* oldest updatedAt first (a missing updatedAt counts as 0); it writes its copy to
\* the store after each deletion, measures, and stops without a further deletion
\* or write when that measure is at most the target; every deletion follows a
\* measure above the target.
C12_OldestFirst ==
    [][\A f \in FlightIds :
          /\ Deletes(f)
             => /\ flights'[f].pages = MapDelete(Held(f), Deleted(f))
                /\ Len(flights'[f].pages) = Len(Held(f)) - 1
                /\ \A k \in MapKeys(Held(f)) : Age(Held(f), Deleted(f)) <= Age(Held(f), k)
                /\ flights'[f].used > Target
                /\ flights[f].pc = "cbytes" => flights'[f].used = BytesOf(store)
                /\ store' = store
          /\ flights[f].pc = "csave" /\ flights'[f] # flights[f]
             => \/ flights'[f].pc = "cbytes" /\ store' = flights[f].pages
                \/ flights'[f] = IdleFlight /\ store' = store
          /\ flights[f].pc = "cbytes" /\ BytesOf(store) <= Target /\ flights'[f] # flights[f]
             => flights'[f] = IdleFlight /\ store' = store]_vars

\* A run has deleted the oldest PageRecords it read one by one and written the
\* store after each; one PageRecord is left and the run is about to measure again
C12_Witness ==
    \E f \in FlightIds :
        /\ flights[f].pc = "cbytes" /\ Len(flights[f].keys) = 1
        /\ store = flights[f].pages /\ Len(store) = 1
        /\ \A g \in FlightIds \ {f} : flights[g].pc = "idle"

\* C13: a run of cleanupIfNeeded returns at once, before any measure, when the
\* capacity is unknown or not positive, and returns without a deletion or a write
\* when the bytes in use it measures first are at most floor(0.90 x capacity); the
\* store is written only by the write of a flush and by the write that follows a
\* deletion, which needs a positive capacity and a measure above the target.
C13_NoEviction ==
    /\ [](\A f \in FlightIds :
             /\ f \in Evicting => quota > 0
             /\ flights[f].pc \in {"cload", "csave"} => flights[f].used > Target)
    /\ [][/\ \A f \in FlightIds :
                /\ flights[f].pc = "save" /\ flights'[f] # flights[f] /\ quota <= 0
                   => flights'[f] = IdleFlight
                /\ flights[f].pc = "bytes" /\ flights'[f] # flights[f] /\ BytesOf(store) <= Target
                   => flights'[f] = IdleFlight /\ store' = store
          /\ store' # store
             => \E f \in FlightIds :
                   /\ flights[f].pc \in {"save", "csave"} /\ flights'[f] # flights[f]
                   /\ store' = flights[f].pages]_vars

\* The capacity is not positive: the flush has written three PageRecords, more
\* than any target, and the run has returned with all of them in the store
C13_Witness ==
    /\ quota <= 0 /\ Len(store) = 3 /\ MapHas(store, PAGE)
    /\ \A f \in FlightIds : flights[f].pc = "idle"

\* ------------------------------------------------------------------ fallback alone
\* A RESTORE on a page that was rendered again with other ids: the store holds one
\* FieldRecord, taken from a control whose id is gone or from a control tracked by
\* its name, and the document is any list of up to MaxControls controls that match
\* its fingerprint more or less.
MaxControls == 3

\* The controls the FieldRecord was taken from
SearchEl == [BlankEl EXCEPT !.type = "text", !.id = "gone", !.name = "q",
                            !.placeholder = "Search", !.autocomplete = "on",
                            !.testid = "t", !.value = "v"]
ChosenEl == [ProEl EXCEPT !.id = "gone", !.checked = TRUE]
\* The same two without an id: their FieldRecords are of kind name
NamedSearchEl == [SearchEl EXCEPT !.id = ""]
NamedChosenEl == [ChosenEl EXCEPT !.id = ""]
Origins == {SearchEl, ChosenEl, NamedSearchEl, NamedChosenEl}

\* The controls of the new document, with their scores against the fingerprint of
\* SearchEl: 11, 13, 12, 18, 18 but disabled; the two radios score 18 against ChosenEl
AutoEl == [BlankEl EXCEPT !.type = "text", !.autocomplete = "on"]
HintEl == [BlankEl EXCEPT !.type = "text", !.placeholder = "Search"]
TestEl == [BlankEl EXCEPT !.tag = "TEXTAREA", !.testid = "t", !.formAction = "/x"]
QueryEl == [BlankEl EXCEPT !.type = "text", !.name = "q"]
OffEl == [QueryEl EXCEPT !.disabled = TRUE]
Rendered == {AutoEl, HintEl, TestEl, QueryEl, OffEl, BasicEl, ProEl}

RECURSIVE Documents(_)
Documents(n) ==
    IF n = 0 THEN {<< >>}
    ELSE Documents(n - 1) \cup {Append(d, el) : d \in Documents(n - 1), el \in Rendered}

FallbackInit ==
    /\ dom \in Documents(MaxControls) \ {<< >>}
    /\ \E el \in Origins :
          store = <<[k |-> PAGE,
                     v |-> [updatedAt |-> 1,
                            data |-> MapValues(recordChange(<< >>, <<el>>, 1))]]>>
    /\ quota = 0
    /\ changedMap = << >>
    /\ saveTimer = 0
    /\ timers = [t \in TimerIds |-> -1]
    /\ restoring = FALSE
    /\ flights = [f \in FlightIds |-> IdleFlight]
    /\ attempts = [a \in AttemptIds |-> IdleAttempt]
    /\ clock = 2
    /\ quiet = SAVE_DEBOUNCE_MS
    /\ seq = 0
    /\ lastTracked = << >>
    /\ budget = [edits |-> 0, restores |-> 1, reloads |-> 0]

FallbackStep ==
    \/ RestoreRequested(1)
    \/ \E ok \in BOOLEAN, observeOk \in BOOLEAN : RestoreLoaded(1, ok, observeOk)

FallbackSpec == FallbackInit /\ [][FallbackStep]_vars

\* The FieldRecord of the store and the live controls of the document
TheRecord == MapGet(store, PAGE).data[1]
Live == {i \in DOMAIN dom : dom[i].present /\ isUsableControl(dom[i])}
Score(i) == scoreMatch(TheRecord.fingerprint, dom[i])
Top == {i \in Live : \A j \in Live : Score(j) <= Score(i)}
Best == findBestByFingerprint(dom, TheRecord.fingerprint)
\* The first pass of the RESTORE runs in the step
FallbackPass == attempts[1].pc = "load" /\ attempts'[1].pc \in {"done", "wait"}
Restored == attempts'[1].pending = << >>
IdGone == TheRecord.id.kind = "id"

\* C14 as stated: the FieldRecord whose id is gone is restored exactly when some
\* live control scores at least 12 against its fingerprint.
C14_Original ==
    [][FallbackPass /\ IdGone
       => (Restored <=> \E i \in Live : Score(i) >= FP_THRESHOLD)]_vars

\* C14 amended: findBestByFingerprint returns the live control of highest score,
\* the first in document order among equals, when that score is at least 12, and
\* none when it is at most 11; the FieldRecord whose id is gone is restored
\* exactly when a control is returned that is not a radio of another value than
\* the radio value recorded.
C14_BestMatch ==
    /\ [](/\ (Live # {} /\ \E i \in Live : Score(i) >= FP_THRESHOLD)
             => /\ Best \in Top
                /\ \A i \in Top : Best <= i
          /\ (\A i \in Live : Score(i) <= FP_THRESHOLD - 1) => Best = 0)
    /\ [][FallbackPass /\ IdGone
          => (Restored <=> (Best # 0 /\ ~RadioMismatch(dom[Best], TheRecord)))]_vars

\* Two live controls share the highest score, 13, and the first of them in the
\* document has received the recorded value, the second has not
C14_Witness ==
    /\ attempts[1].pc = "done" /\ attempts[1].via = "first pass" /\ IdGone
    /\ \E i, j \in Live : /\ i < j /\ Top = {i, j} /\ Score(i) = 13
                          /\ dom[i].value = "v" /\ dom[j].value = ""

\* ------------------------------------------------------------------ the codec alone
\* writeControlValue on documents of two controls of every kind, with the values
\* readControlValue returns and the values a store can hold.
TickEl == [BlankEl EXCEPT !.type = "checkbox", !.id = "tick", !.value = "on"]
MemoEl == [BlankEl EXCEPT !.tag = "TEXTAREA", !.id = "memo"]
\* A single select with two options of the same value, one without options, and
\* a multiple select
SizeEl == [BlankEl EXCEPT !.tag = "SELECT", !.id = "size", !.options = <<"s", "m", "s">>]
NoneEl == [BlankEl EXCEPT !.tag = "SELECT", !.id = "none"]
TagsEl == [BlankEl EXCEPT !.tag = "SELECT", !.id = "tags", !.multiple = TRUE,
                          !.options = <<"a", "b", "a">>]
Kinds == {TickEl, BasicEl, ProEl, EmailEl, MemoEl, SizeEl, NoneEl, TagsEl}

\* ControlValues: what readControlValue returns on these controls, and select
\* values without a value property
ControlValues ==
    {[t |-> "checkbox", checked |-> b] : b \in BOOLEAN}
    \cup {[t |-> "radio", checked |-> b, value |-> v] : b \in BOOLEAN, v \in {"basic", "pro"}}
    \cup {[t |-> "input", value |-> "v"], [t |-> "textarea", value |-> "w"]}
    \cup {readControlValue([SizeEl EXCEPT !.selectedIndex = n]) : n \in -1..2}
    \cup {[t |-> "select", selectedIndex |-> n] : n \in {-1, 2}}
    \cup {readControlValue([TagsEl EXCEPT !.selected = S]) : S \in SUBSET (0..2)}

CodecInit ==
    /\ \E a \in Kinds, b \in Kinds : dom = <<DefaultState(a), DefaultState(b)>>
    /\ store = << >>
    /\ quota = 0
    /\ changedMap = << >>
    /\ saveTimer = 0
    /\ timers = [t \in TimerIds |-> -1]
    /\ restoring = FALSE
    /\ flights = [f \in FlightIds |-> IdleFlight]
    /\ attempts = [a \in AttemptIds |-> IdleAttempt]
    /\ clock = 1
    /\ quiet = SAVE_DEBOUNCE_MS
    /\ seq = 0
    /\ lastTracked = << >>
    /\ budget = [edits |-> 0, restores |-> 0, reloads |-> 0]

\* writeControlValue(el, data)
WriteValue(i, data) ==
    /\ dom' = writeControlValue(dom, i, data)
    /\ UNCHANGED <<changedMap, saveTimer, timers, restoring, flights, attempts, store,
                   quota, clock, budget, obs>>

\* writeControlValue(el, readControlValue(el))
WriteBack(i) == WriteValue(i, readControlValue(dom[i]))

CodecStep ==
    \/ \E i \in DOMAIN dom, data \in ControlValues : WriteValue(i, data)
    \/ \E i \in DOMAIN dom : WriteBack(i)

CodecSpec == CodecInit /\ [][CodecStep]_vars

\* C15: writing back the value read from a control leaves the document as it is,
\* whatever the kind and state of the control, and writing it a second time
\* changes nothing more.
C15_RoundTrip ==
    \A i \in DOMAIN dom :
        LET once == writeControlValue(dom, i, readControlValue(dom[i]))
        IN  /\ once = dom
            /\ writeControlValue(once, i, readControlValue(dom[i])) = once

\* The ControlValue variant a control reads as
VariantOf(el) == readControlValue(el).t

\* C16: writing a ControlValue of another variant than the control's own changes
\* nothing.
C16_Mismatch ==
    \A i \in DOMAIN dom, data \in ControlValues :
        data.t # VariantOf(dom[i]) => writeControlValue(dom, i, data) = dom

\* ------------------------------------------------------------------ identities alone
\* The change tracker on documents of two controls whose ids and names contain
\* ':' and the prefixes of the keys of the other kinds.
Tags == {"INPUT", "TEXTAREA", "SELECT"}
Ids == {"", "a", "name:INPUT:a"}
Names == {"", "a", "id:a", "INPUT:a"}
Named == {[BlankEl EXCEPT !.tag = t, !.id = i, !.name = n,
                          !.type = IF t = "INPUT" THEN "text" ELSE "",
                          !.options = IF t = "SELECT" THEN <<"s", "m">> ELSE << >>] :
             t \in Tags, i \in Ids, n \in Names}

\* The identities getStableId can return for such values
Values == {"a", "a:b", ":a", "id:a", "path:a", "name:INPUT:a", "INPUT:a", "SELECT:a"}
Identities ==
    {[kind |-> "id", value |-> v, tag |-> ""] : v \in Values}
    \cup {[kind |-> "name", value |-> v, tag |-> t] : v \in Values, t \in Tags}
    \cup {[kind |-> "path", value |-> v, tag |-> ""] : v \in Values}

KeyInit ==
    /\ \E a \in Named, b \in Named : dom = <<DefaultState(a), DefaultState(b)>>
    /\ store = << >>
    /\ quota = 0
    /\ changedMap = << >>
    /\ saveTimer = 0
    /\ timers = [t \in TimerIds |-> -1]
    /\ restoring = FALSE
    /\ flights = [f \in FlightIds |-> IdleFlight]
    /\ attempts = [a \in AttemptIds |-> IdleAttempt]
    /\ clock = 1
    /\ quiet = SAVE_DEBOUNCE_MS
    /\ seq = 0
    /\ lastTracked = << >>
    /\ budget = [edits |-> MaxEdits, restores |-> 0, reloads |-> 0]

\* The user picks option n of a single select: trusted "input" and "change" events
UserSelects(i, n) ==
    /\ CanEdit(i) /\ dom[i].tag = "SELECT" /\ ~dom[i].multiple
    /\ n + 1 \in DOMAIN dom[i].options /\ n # dom[i].selectedIndex
    /\ AfterPass(changeListener(inputListener(
           [Ctx EXCEPT !.dom[i].selectedIndex = n], i, TRUE), i, TRUE))
    /\ Spend
    /\ UNCHANGED <<restoring, flights, attempts, store, quota, clock>>

KeyStep ==
    \/ \E i \in DOMAIN dom : UserTypes(i)
    \/ \E i \in DOMAIN dom, n \in 0..1 : UserSelects(i, n)

KeySpec == KeyInit /\ [][KeyStep]_vars

\* The identity of the control at position i
IdentityOf(i) == getStableId(dom, i)

\* C17: two identities getStableId can produce have the same StableKey only if
\* they are the same identity, also when their values contain ':' or start with
\* the prefix of another kind; the key of a control is the same whatever its
\* value, before and after every tracked event.
C17_Injective ==
    /\ [](/\ \A s1 \in Identities, s2 \in Identities :
                stableKey(s1) = stableKey(s2) => s1 = s2
          /\ \A i \in DOMAIN dom, j \in DOMAIN dom :
                stableKey(IdentityOf(i)) = stableKey(IdentityOf(j))
                => IdentityOf(i) = IdentityOf(j)
          /\ \A n \in DOMAIN changedMap, m \in DOMAIN changedMap :
                changedMap[n].v.id # changedMap[m].v.id => changedMap[n].k # changedMap[m].k)
    /\ [][\A i \in DOMAIN dom :
             stableKey(getStableId(dom', i)) = stableKey(IdentityOf(i))]_vars

\* Two controls with the same name and different tags have been tracked and are
\* staged under two keys
C17_Witness ==
    /\ Len(changedMap) = 2
    /\ changedMap[1].v.id.kind = "name" /\ changedMap[2].v.id.kind = "name"
    /\ changedMap[1].v.id.value = changedMap[2].v.id.value
    /\ changedMap[1].v.id.tag # changedMap[2].v.id.tag

\* ---- keys of the maps
\* The entries of a Map are stored under the StableKey of their identity
Keyed(m) == \A n \in DOMAIN m : m[n].k = stableKey(m[n].v.id)
\* No two FieldRecords of a field list have the same StableKey
OnePerKey(data) ==
    \A n \in DOMAIN data, m \in DOMAIN data :
        n # m => stableKey(data[n].id) # stableKey(data[m].id)

\* C18: every entry of the staged map and of the pending map of a restore attempt
\* is stored under the StableKey of its identity, and no PageRecord of the store
\* holds two FieldRecords with the same StableKey.
C18_KeyedByIdentity ==
    /\ Keyed(changedMap)
    /\ \A a \in AttemptIds : Keyed(attempts[a].pending)
    /\ \A p \in DOMAIN store : HasData(store[p].v) => OnePerKey(store[p].v.data)

\* A field was persisted, edited again and persisted again, another field is
\* persisted too; after a reload an attempt waits with one of them pending
C18_Witness ==
    \E a \in AttemptIds :
        /\ attempts[a].pc = "wait" /\ Len(attempts[a].pending) = 1
        /\ Len(StoredFields) = 2 /\ MapGet(store, PAGE).updatedAt >= 2

\* ---- the payload of a flush
\* The fields of the page in the payload of run f after the step, with their keys
PayloadKeys(f) == {stableKey(Payload(f)[n].id) : n \in DOMAIN Payload(f)}
StoredKeys == {stableKey(StoredFields[n].id) : n \in DOMAIN StoredFields}

\* C19: the payload a flush builds from the store it has read holds, for the
\* page, one FieldRecord per StableKey that is staged or persisted: the staged one
\* if the key is staged, else the persisted one, unchanged; it holds the
\* PageRecords of every other page as read; and the write that succeeds makes the
\* payload the store.
C19_Merge ==
    [][\A f \in FlightIds :
          /\ Merges(f)
             => /\ PayloadKeys(f) = MapKeys(changedMap) \cup StoredKeys
                /\ OnePerKey(Payload(f))
                /\ \A n \in DOMAIN Payload(f) :
                      LET k == stableKey(Payload(f)[n].id)
                      IN  Payload(f)[n] = IF MapHas(changedMap, k) THEN MapGet(changedMap, k)
                                          ELSE CHOOSE r \in StoredAt(k) : TRUE
                /\ MapKeys(flights'[f].pages) = MapKeys(store) \cup {PAGE}
                /\ \A p \in MapKeys(store) \ {PAGE} :
                      MapGet(flights'[f].pages, p) = MapGet(store, p)
          /\ flights[f].pc = "save" /\ flights'[f] # flights[f]
             => \/ store' = flights[f].pages
                \/ store' = store /\ flights'[f] = IdleFlight]_vars

\* The second flush of the page has written a PageRecord of two fields, one staged
\* and one kept from the first flush, next to the record of the other page, and
\* the eviction has not measured yet
C19_Witness ==
    \E f \in FlightIds :
        /\ flights[f].pc = "bytes" /\ store = flights[f].pages
        /\ \A g \in FlightIds \ {f} : flights[g].pc = "idle"
        /\ Len(StoredFields) = 2 /\ MapGet(store, PAGE).updatedAt = 2
        /\ MapHas(store, OTHER_PAGE) /\ MapGet(store, OTHER_PAGE) = OldRecord

\* ---- name-based fields
ByItsName == TheRecord.id.kind = "name"
\* The trackable elements with the tag and the name of the FieldRecord, and those
\* of them that pass the radio value check
Namesakes == {i \in Live : dom[i].tag = TheRecord.id.tag /\ dom[i].name = TheRecord.id.value}
Takers == {i \in Namesakes : ~RadioMismatch(dom[i], TheRecord)}
Last(S) == CHOOSE i \in S : \A j \in S : j <= i

\* C20: one pass applies the value of a name-kind FieldRecord to every trackable
\* element with that tag and name that passes the radio value check, and to no
\* other element; the record leaves pending exactly if at least one value was
\* written; when none of them takes the value, the same pass goes on to the
\* direct lookup and to the fingerprint match.
C20_ByName ==
    [][FallbackPass /\ ByItsName
       => /\ Restored <=> attempts'[1].applied >= 1
          /\ Takers # {}
             => /\ attempts'[1].applied = Cardinality(Takers)
                /\ \A i \in Takers : TheRecord.value.t = "input"
                                     => dom'[i].value = TheRecord.value.value
                /\ TheRecord.value.t = "radio" => dom'[Last(Takers)].checked
                /\ \A i \in DOMAIN dom \ Namesakes : dom'[i] = dom[i]
          /\ Takers = {}
             => /\ Restored <=> (Best # 0 /\ ~RadioMismatch(dom[Best], TheRecord))
                /\ Restored => /\ attempts'[1].applied = 1
                               /\ dom' = writeControlValue(dom, Best, TheRecord.value)
                /\ ~Restored => dom' = dom]_vars

\* The value of a name-kind FieldRecord has been written to the two trackable
\* inputs of that name, not to the disabled one
C20_Witness ==
    /\ attempts[1].pc = "done" /\ attempts[1].applied = 2 /\ ByItsName
    /\ Cardinality(Namesakes) = 2
    /\ \A i \in Namesakes : dom[i].value = "v"
    /\ \E i \in DOMAIN dom : dom[i].disabled /\ dom[i].name = TheRecord.id.value
                             /\ dom[i].value = ""

\* ------------------------------------------------------------------ scoring alone
\* A RESTORE of one FieldRecord whose id is gone, on a document of one control:
\* the recorded control and the live control carry or lack each attribute the
\* score looks at.
\* A label of LABEL_CAP + 1 characters whose character LABEL_CAP is a blank
LongLabel == [n \in 1..(LABEL_CAP + 1) |-> IF n = LABEL_CAP THEN " " ELSE "a"]
Labels == {<< >>, <<"A", " ">>}

\* The live controls: with or without each attribute, and two with the long label
Scored ==
    {[BlankEl EXCEPT !.tag = t, !.type = y, !.formAction = f, !.name = n, !.testid = d,
                     !.placeholder = p, !.autocomplete = c, !.ariaLabel = r,
                     !.labelText = l] :
        t \in {"INPUT", "TEXTAREA"}, y \in {"", "text"}, f \in {"", "/x"}, n \in {"", "q"},
        d \in {"", "t"}, p \in {"", "Search"}, c \in {"", "on"}, r \in {"", "Find"},
        l \in Labels}
    \cup {[BlankEl EXCEPT !.labelText = LongLabel],
          [BlankEl EXCEPT !.type = "text", !.name = "q", !.labelText = LongLabel]}

\* The controls the FieldRecord was taken from: none of the attributes, all of
\* them, all with another name, all with the long label
BareEl == [BlankEl EXCEPT !.id = "gone", !.value = "v"]
FullEl == [BareEl EXCEPT !.type = "text", !.formAction = "/x", !.name = "q",
                         !.testid = "t", !.placeholder = "Search", !.autocomplete = "on",
                         !.ariaLabel = "Find", !.labelText = <<"a">>]
OtherNameEl == [FullEl EXCEPT !.name = "r"]
LongEl == [FullEl EXCEPT !.labelText = LongLabel]
Recorded == {BareEl, FullEl, OtherNameEl, LongEl}

ScoreInit ==
    /\ \E el \in Scored : dom = <<el>>
    /\ \E el \in Recorded :
          store = <<[k |-> PAGE,
                     v |-> [updatedAt |-> 1,
                            data |-> MapValues(recordChange(<< >>, <<el>>, 1))]]>>
    /\ quota = 0
    /\ changedMap = << >>
    /\ saveTimer = 0
    /\ timers = [t \in TimerIds |-> -1]
    /\ restoring = FALSE
    /\ flights = [f \in FlightIds |-> IdleFlight]
    /\ attempts = [a \in AttemptIds |-> IdleAttempt]
    /\ clock = 2
    /\ quiet = SAVE_DEBOUNCE_MS
    /\ seq = 0
    /\ lastTracked = << >>
    /\ budget = [edits |-> 0, restores |-> 1, reloads |-> 0]

ScoreStep ==
    \/ RestoreRequested(1)
    \/ \E ok \in BOOLEAN, observeOk \in BOOLEAN : RestoreLoaded(1, ok, observeOk)

ScoreSpec == ScoreInit /\ [][ScoreStep]_vars

\* ---- the weights
Attributes == {"tag", "type", "formAction", "name", "testid", "placeholder",
               "autocomplete", "ariaLabel", "labelText"}
Weight == [a \in Attributes |->
              CASE a = "tag" -> 3 [] a = "type" -> 3 [] a = "formAction" -> 2
                [] a = "name" -> 10 [] a = "testid" -> 12 [] a = "placeholder" -> 5
                [] a = "autocomplete" -> 3 [] a = "ariaLabel" -> 6 [] a = "labelText" -> 10]
RECURSIVE Total(_)
Total(S) == IF S = {} THEN 0
            ELSE LET a == CHOOSE x \in S : TRUE IN Weight[a] + Total(S \ {a})

\* The attributes of a fingerprint and of the fingerprint of a live element that
\* are the same
Same(fp, el) == {a \in Attributes : getFingerprint(el)[a] = fp[a]}
\* The attributes the score counts: tag and subtype when the same; form action,
\* name, test id, placeholder, autocomplete and aria-label when not empty in the
\* stored fingerprint and the same; the label when not empty in the stored
\* fingerprint and the live label is the stored label normalized again
Counted(fp, el) ==
    {a \in Same(fp, el) : a \in {"tag", "type"} \/ (a # "labelText" /\ fp[a] # "")}
    \cup {a \in {"labelText"} : /\ fp.labelText # << >> /\ getLabelText(el) # << >>
                                /\ getLabelText(el) = normalizeText(fp.labelText)}

\* C21 as stated: the score is the sum of the weights of the attributes on which
\* the stored fingerprint and the live element are the same.
C21_Original ==
    \A i \in DOMAIN dom :
        scoreMatch(TheRecord.fingerprint, dom[i]) = Total(Same(TheRecord.fingerprint, dom[i]))

\* C21 amended: the score is the sum of the weights (tag 3, subtype 3, form action
\* or page path 2, name 10, test id 12, placeholder 5, autocomplete 3, aria-label
\* 6, label 10) of the attributes counted: an attribute other than tag and subtype
\* counts only when it is not empty in the stored fingerprint, and the label counts
\* when the live label equals the stored label normalized a second time; nothing
\* else contributes and the sum is not capped.
C21_Score ==
    \A i \in DOMAIN dom :
        scoreMatch(TheRecord.fingerprint, dom[i]) = Total(Counted(TheRecord.fingerprint, dom[i]))

\* A RESTORE has written the value to a control that is the same as the recorded
\* one on all nine attributes: it scores 54, the sum of all the weights
C21_Witness ==
    /\ attempts[1].pc = "done" /\ attempts[1].applied = 1 /\ dom[1].value = "v"
    /\ Same(TheRecord.fingerprint, dom[1]) = Attributes
    /\ Score(1) = 54

\* ---- passes of one attempt
\* Attempt a waits for mutations before the step and has not been replaced by it
Retries(a) == attempts[a].pc = "wait" /\ attempts'[a].pc \in {"wait", "done"}
\* The FieldRecords that leave the pending set of attempt a in the step
Leaving(a) == {attempts[a].pending[n].v : n \in DOMAIN attempts[a].pending}
                 \ {attempts'[a].pending[n].v : n \in DOMAIN attempts'[a].pending}

\* C22: while an attempt waits, its pending set only loses FieldRecords and keeps
\* the others as they are; a pass run for a mutation batch writes a value only for
\* a FieldRecord that was still pending, which then leaves the set, so the text
\* such a pass writes is the value of a FieldRecord leaving a pending set; and the
\* attempt answers {ok: true} in the very pass that empties the set, the first
\* pass or a later one, while its timer is still set.
C22_PendingShrinks ==
    /\ [](\A a \in AttemptIds : attempts[a].pc = "wait" => attempts[a].pending # << >>)
    /\ [][\A a \in AttemptIds :
             /\ Retries(a)
                => /\ \A n \in DOMAIN attempts'[a].pending :
                         \E m \in DOMAIN attempts[a].pending :
                            attempts[a].pending[m] = attempts'[a].pending[n]
                   /\ attempts'[a].applied >= attempts[a].applied
                   /\ attempts'[a].applied > attempts[a].applied => Leaving(a) # {}
                   /\ attempts'[a].pending = << >>
                      => /\ Responds(a) /\ Response(a) = [ok |-> TRUE]
                         /\ attempts'[a].pc = "done" /\ attempts'[a].via = "observer"
                         /\ attempts'[a].timer = attempts[a].timer /\ attempts[a].timer >= 0
                   /\ \A i \in DOMAIN dom :
                         (attempts'[a].applied > attempts[a].applied
                            /\ dom'[i].value # dom[i].value)
                         => \E b \in AttemptIds : \E rec \in Leaving(b) :
                               rec.value.value = dom'[i].value
             /\ FirstPass(a) /\ attempts'[a].pending = << >>
                => /\ Responds(a) /\ Response(a) = [ok |-> TRUE]
                   /\ attempts'[a].pc = "done"]_vars

\* An attempt wrote one FieldRecord in its first pass and the other in the pass of
\* a mutation batch, answered {ok: true} in that pass, and its timer is still set
C22_Witness ==
    \E a \in AttemptIds :
        /\ attempts[a].via = "observer" /\ attempts[a].responses = <<[ok |-> TRUE]>>
        /\ attempts[a].applied = 2 /\ attempts[a].pending = << >>
        /\ attempts[a].timer > 0

\* ---- after the answer
\* Attempt a has answered from restoreWithRetries
Settled(a) == /\ attempts[a].pc = "done"
              /\ attempts[a].via \in {"first pass", "observer", "timeout", "observe threw"}
\* What a write or an event of the restore engine can change
Touched == <<[i \in DOMAIN dom |-> [dom[i] EXCEPT !.present = TRUE]],
             changedMap, lastTracked, seq, saveTimer>>
\* The step sets a flush timer
Arms == \E t \in TimerIds : timers'[t] > timers[t]
\* The FieldRecord rec is one a pass would write now: its element is there and
\* does not hold the stored value
Writable(rec) == \E i \in DOMAIN dom : /\ LeadsTo(rec, i)
                                       /\ dom[i].value # rec.value.value

\* C23: an attempt that has answered (settled in a pass, timed out, or reported at
\* once because observation could not be set up) stays as it answered: it applies
\* nothing more, its pending set and its answer stay, and a mutation batch or a
\* timer of the restore engine that comes while no attempt is waiting writes no
\* value and dispatches no event.  The timer is set to 4.5 s when the attempt
\* starts to wait, the passes of mutation batches never set it again, a waiting
\* attempt always has it, and the timeout answer comes only when it has run down.
C23_NothingAfterAnswer ==
    /\ [](\A a \in AttemptIds : attempts[a].pc = "wait" => attempts[a].timer >= 0)
    /\ [][/\ \A a \in AttemptIds :
                /\ (Settled(a) /\ attempts'[a].pc # "idle")
                   => attempts' [a] = [attempts[a] EXCEPT !.timer = attempts'[a].timer]
                /\ (FirstPass(a) /\ attempts'[a].pc = "wait")
                   => attempts'[a].timer = RESTORE_RETRY_MS
                /\ (FirstPass(a) /\ attempts'[a].pc = "done") => attempts'[a].timer = -1
                /\ Retries(a)
                   => /\ attempts'[a].timer <= attempts[a].timer
                      /\ attempts'[a].applied > attempts[a].applied
                         => attempts'[a].timer = attempts[a].timer
                      /\ (Responds(a) /\ attempts'[a].via = "timeout")
                         => attempts[a].timer = 0
          /\ ((\A a \in AttemptIds : ~FirstPass(a) /\ ~Retries(a))
                /\ budget.edits' = budget.edits /\ budget.reloads' = budget.reloads
                /\ flights' = flights)
             => (Touched' = Touched /\ ~Arms)]_vars

\* An attempt has answered with a FieldRecord missing, and the element of that
\* FieldRecord has been rendered since and was left as it was
C23_Witness ==
    \E a \in AttemptIds :
        /\ Settled(a) /\ attempts[a].via = "timeout" /\ attempts[a].timer = -1
        /\ attempts[a].pending # << >>
        /\ \A n \in DOMAIN attempts[a].pending : Writable(attempts[a].pending[n].v)
        /\ \A b \in AttemptIds : attempts[b].pc \notin {"load", "wait"}

\* ------------------------------------------------------------------ flushes alone
\* The user edits a page that starts with an empty store and no quota, and every
\* storage operation succeeds: no RESTORE, no reload, no eviction.
SaveInit ==
    /\ \E l \in {m \in Loads : m.env = EmptyStore} :
          /\ dom = [i \in DOMAIN l.layout |-> DefaultState(l.layout[i])]
          /\ store = l.env.store
          /\ quota = l.env.quota
    /\ changedMap = << >>
    /\ saveTimer = 0
    /\ timers = [t \in TimerIds |-> -1]
    /\ restoring = FALSE
    /\ flights = [f \in FlightIds |-> IdleFlight]
    /\ attempts = [a \in AttemptIds |-> IdleAttempt]
    /\ clock = 1
    /\ quiet = SAVE_DEBOUNCE_MS
    /\ seq = 0
    /\ lastTracked = << >>
    /\ budget = [edits |-> MaxEdits, restores |-> 0, reloads |-> 0]

SaveStep ==
    \/ \E i \in DOMAIN dom : UserTypes(i)
    \/ \E i \in DOMAIN dom : UserClicks(i)
    \/ \E d \in TimeSteps : TimePasses(d)
    \/ \E t \in TimerIds : TimerFires(t)
    \/ \E f \in FlightIds : FlushLoaded(f, TRUE)
    \/ \E f \in FlightIds : FlushSaved(f, TRUE)

SaveSpec == SaveInit /\ [][SaveStep]_vars

\* ---- the flush cycle
\* No timer is set and no run of saveCurrentPage is under way: without another
\* edit nothing will write to the store any more
AtRest == /\ \A t \in TimerIds : timers[t] = -1
          /\ \A f \in FlightIds : flights[f].pc = "idle"

\* C24: when every storage operation succeeds, no edit of the user is lost: once
\* the flush cycle has come to rest, the PageRecord of the page holds, for every
\* StableKey the user has edited, the value of the most recent edit of that key.
C24_NoEditLost ==
    AtRest => \A k \in DOMAIN lastTracked :
                  \E rec \in StoredAt(k) : rec.value = lastTracked[k]

\* ---- one element, one FieldRecord
\* A pass that starts in this state writes the FieldRecord rec, found by its
\* locator or by its fingerprint, to the text control at position i
Fills(rec, i) ==
    /\ rec.id.kind = "id" /\ LeadsTo(rec, i)
    /\ dom[i].present /\ IsTextLike(dom[i])
\* The FieldRecords the step takes out of the pending set of attempt a
Done(a) == {StoredFields[n] : n \in DOMAIN StoredFields}
              \ {attempts'[a].pending[n].v : n \in DOMAIN attempts'[a].pending}

\* C25: in the first pass of an attempt no control is written for two different
\* FieldRecords: the FieldRecords the pass takes out of the pending set and writes
\* to one control, by locator or by fingerprint, are one and the same.
C25_OneRecordPerElement ==
    [][\A a \in AttemptIds : \A i \in DOMAIN dom : \A r1, r2 \in Done(a) :
          (FirstPass(a) /\ Fills(r1, i) /\ Fills(r2, i)) => r1 = r2]_vars

\* ------------------------------------------------------------------ radios with ids
\* Up to MaxSelections clicks on the radios of one group that each have an id of
\* their own, the flushes, one reload and one RESTORE; every storage operation
\* succeeds.
MaxSelections == 3

ChoiceForm == <<[BasicEl EXCEPT !.id = "basic"], [ProEl EXCEPT !.id = "pro"]>>

RadioInit ==
    /\ dom = [i \in DOMAIN ChoiceForm |-> DefaultState(ChoiceForm[i])]
    /\ store = EmptyStore.store
    /\ quota = EmptyStore.quota
    /\ changedMap = << >>
    /\ saveTimer = 0
    /\ timers = [t \in TimerIds |-> -1]
    /\ restoring = FALSE
    /\ flights = [f \in FlightIds |-> IdleFlight]
    /\ attempts = [a \in AttemptIds |-> IdleAttempt]
    /\ clock = 1
    /\ quiet = SAVE_DEBOUNCE_MS
    /\ seq = 0
    /\ lastTracked = << >>
    /\ budget = [edits |-> MaxSelections, restores |-> 1, reloads |-> 1]

RadioStep ==
    \/ \E i \in DOMAIN dom : UserClicks(i)
    \/ \E d \in TimeSteps : TimePasses(d)
    \/ \E t \in TimerIds : TimerFires(t)
    \/ \E f \in FlightIds : FlushLoaded(f, TRUE)
    \/ \E f \in FlightIds : FlushSaved(f, TRUE)
    \/ Reload
    \/ \E a \in AttemptIds : RestoreRequested(a)
    \/ \E a \in AttemptIds : RestoreLoaded(a, TRUE, TRUE)

RadioSpec == RadioInit /\ [][RadioStep]_vars

\* ---- the last selection
\* Every edit of the user is in the PageRecord: the last flush has succeeded and
\* nothing is staged or under way
Flushed == /\ AtRest /\ changedMap = << >> /\ lastTracked # << >>
           /\ \A k \in DOMAIN lastTracked :
                 \E rec \in StoredAt(k) : rec.value = lastTracked[k]
\* The document after a reload now and the first pass of a RESTORE on it
AsRestored ==
    Pass([Ctx EXCEPT !.dom = [i \in DOMAIN dom |-> DefaultState(dom[i])],
                     !.changedMap = << >>, !.restoring = TRUE],
         PendingOf(StoredFields)).c.dom

\* C26: radios of one group that each have their own id: once a flush has
\* persisted every selection of the user, a reload followed by a RESTORE checks
\* the radio that is checked now, which is the one the user selected last.
C26_LastSelection ==
    (Flushed /\ budget.reloads > 0 /\ Quiescent)
    => \A i \in DOMAIN dom : AsRestored[i].checked = dom[i].checked
====
